---- MODULE Spec2Model ----
(***************************************************************************)
(* Model of vixcpp/webrpc: the RPC envelope types (RpcError, RpcRequest,   *)
(* RpcResponse), the Router registry and the Dispatcher, built on the      *)
(* vix::json token value (null, bool, i64, string, object, array).         *)
(***************************************************************************)
EXTENDS Integers, Sequences, FiniteSets, TLC

(***************************************************************************)
(* vix::json::token.  One record shape for every kind of token: t is the   *)
(* discriminant, b / n / s the scalar payload, kv the object storage (a    *)
(* function from keys to tokens; key order is not modelled), el the array  *)
(* elements.  Unused payload fields hold a fixed default.                  *)
(***************************************************************************)
NoKv == [k \in {} |-> 0]

Null == [t |-> "null", b |-> FALSE, n |-> 0, s |-> "", kv |-> NoKv, el |-> <<>>]

Bool(x) == [t |-> "bool", b |-> x, n |-> 0, s |-> "", kv |-> NoKv, el |-> <<>>]

I64(x) == [t |-> "i64", b |-> FALSE, n |-> x, s |-> "", kv |-> NoKv, el |-> <<>>]

Str(x) == [t |-> "string", b |-> FALSE, n |-> 0, s |-> x, kv |-> NoKv, el |-> <<>>]

Obj(f) == [t |-> "object", b |-> FALSE, n |-> 0, s |-> "", kv |-> f, el |-> <<>>]

Arr(q) == [t |-> "array", b |-> FALSE, n |-> 0, s |-> "", kv |-> NoKv, el |-> q]

is_null(v) == v.t = "null"

is_string(v) == v.t = "string"

is_i64(v) == v.t = "i64"

is_object(v) == v.t = "object"

is_array(v) == v.t = "array"

\* kvs::get_ptr(key) != nullptr
has_key(v, k) == is_object(v) /\ k \in DOMAIN v.kv

\* the keys of an object token (empty for every other token)
keys(v) == IF is_object(v) THEN DOMAIN v.kv ELSE {}

(***************************************************************************)
(* RpcError                                                                *)
(***************************************************************************)
RpcError(c, m, d) == [code |-> c, message |-> m, details |-> d]

\* RpcError{} : the default-constructed error
NoError == RpcError("", "", Null)

error_valid(e) == e.code # ""

method_not_found(m) ==
    RpcError("METHOD_NOT_FOUND", "RPC method not found", Obj("method" :> Str(m)))

invalid_params(r) ==
    RpcError("INVALID_PARAMS", "Invalid RPC parameters", Obj("reason" :> Str(r)))

parse_error(r) ==
    RpcError("PARSE_ERROR", "Failed to parse RPC payload", Obj("reason" :> Str(r)))

\* internal_error built like the three others: fixed message, text in details
internal_error_ReasonDetails(m) ==
    RpcError("INTERNAL_ERROR", "Internal error", Obj("reason" :> Str(m)))

internal_error(m) == RpcError("INTERNAL_ERROR", m, Null)

\* to_json that writes the details even when they are null
error_to_json_AlwaysDetails(e) ==
    Obj("code" :> Str(e.code) @@ "message" :> Str(e.message)
        @@ "details" :> e.details)

error_to_json(e) ==
    IF is_null(e.details)
    THEN Obj("code" :> Str(e.code) @@ "message" :> Str(e.message))
    ELSE Obj("code" :> Str(e.code) @@ "message" :> Str(e.message)
             @@ "details" :> e.details)

\* RpcErrorParseResult
ErrParseOk(v) == [ok_ |-> TRUE, value_ |-> v, error_ |-> NoError]

ErrParseFail(e) == [ok_ |-> FALSE, value_ |-> NoError, error_ |-> e]

\* parse that accepts an empty code
error_parse_EmptyCode(root) ==
    IF ~is_object(root)
    THEN ErrParseFail(parse_error("error must be an object"))
    ELSE IF ~has_key(root, "code") \/ ~has_key(root, "message")
    THEN ErrParseFail(parse_error("error object must contain code and message"))
    ELSE IF ~is_string(root.kv["code"]) \/ ~is_string(root.kv["message"])
    THEN ErrParseFail(parse_error("code and message must be strings"))
    ELSE ErrParseOk(RpcError(root.kv["code"].s, root.kv["message"].s,
                             IF has_key(root, "details")
                             THEN root.kv["details"] ELSE Null))

\* parse that does not take the details over
error_parse_DropsDetails(root) ==
    IF ~is_object(root)
    THEN ErrParseFail(parse_error("error must be an object"))
    ELSE IF ~has_key(root, "code") \/ ~has_key(root, "message")
    THEN ErrParseFail(parse_error("error object must contain code and message"))
    ELSE IF ~is_string(root.kv["code"]) \/ ~is_string(root.kv["message"])
    THEN ErrParseFail(parse_error("code and message must be strings"))
    ELSE IF root.kv["code"].s = ""
    THEN ErrParseFail(parse_error("code must not be empty"))
    ELSE ErrParseOk(RpcError(root.kv["code"].s, root.kv["message"].s, Null))

error_parse(root) ==
    IF ~is_object(root)
    THEN ErrParseFail(parse_error("error must be an object"))
    ELSE IF ~has_key(root, "code") \/ ~has_key(root, "message")
    THEN ErrParseFail(parse_error("error object must contain code and message"))
    ELSE IF ~is_string(root.kv["code"]) \/ ~is_string(root.kv["message"])
    THEN ErrParseFail(parse_error("code and message must be strings"))
    ELSE IF root.kv["code"].s = ""
    THEN ErrParseFail(parse_error("code must not be empty"))
    ELSE ErrParseOk(RpcError(root.kv["code"].s, root.kv["message"].s,
                             IF has_key(root, "details")
                             THEN root.kv["details"] ELSE Null))

(***************************************************************************)
(* RpcRequest                                                              *)
(***************************************************************************)
RpcRequest(i, m, p) == [id |-> i, method |-> m, params |-> p]

NoRequest == RpcRequest(Null, "", Null)

request_valid(r) == r.method # ""

request_has_id(r) == ~is_null(r.id)

\* to_json that writes the id even when it is null
request_to_json_AlwaysId(r) ==
    Obj([k \in {"method", "id"}
                \cup (IF is_null(r.params) THEN {} ELSE {"params"}) |->
            IF k = "method" THEN Str(r.method)
            ELSE IF k = "id" THEN r.id ELSE r.params])

\* to_json: method always, id and params only when they are not null
request_to_json(r) ==
    Obj([k \in {"method"} \cup (IF is_null(r.id) THEN {} ELSE {"id"})
                          \cup (IF is_null(r.params) THEN {} ELSE {"params"}) |->
            IF k = "method" THEN Str(r.method)
            ELSE IF k = "id" THEN r.id ELSE r.params])

\* std::variant<RpcRequest, RpcError>
ReqOk(r) == [is_err |-> FALSE, req |-> r, err |-> NoError]

ReqErr(e) == [is_err |-> TRUE, req |-> NoRequest, err |-> e]

id_allowed(v) == is_null(v) \/ is_string(v) \/ is_i64(v)

\* parse that accepts an empty method
request_parse_EmptyMethod(root) ==
    IF ~is_object(root)
    THEN ReqErr(parse_error("request must be an object"))
    ELSE IF ~has_key(root, "method")
    THEN ReqErr(invalid_params("missing field: method"))
    ELSE IF ~is_string(root.kv["method"])
    THEN ReqErr(invalid_params("method must be a non-empty string"))
    ELSE IF has_key(root, "id") /\ ~id_allowed(root.kv["id"])
    THEN ReqErr(invalid_params("id must be string, int, or null"))
    ELSE ReqOk(RpcRequest(IF has_key(root, "id") THEN root.kv["id"] ELSE Null,
                          root.kv["method"].s,
                          IF has_key(root, "params")
                          THEN root.kv["params"] ELSE Null))

\* parse that does not check the kind of the id
request_parse_AnyId(root) ==
    IF ~is_object(root)
    THEN ReqErr(parse_error("request must be an object"))
    ELSE IF ~has_key(root, "method")
    THEN ReqErr(invalid_params("missing field: method"))
    ELSE IF ~is_string(root.kv["method"]) \/ root.kv["method"].s = ""
    THEN ReqErr(invalid_params("method must be a non-empty string"))
    ELSE ReqOk(RpcRequest(IF has_key(root, "id") THEN root.kv["id"] ELSE Null,
                          root.kv["method"].s,
                          IF has_key(root, "params")
                          THEN root.kv["params"] ELSE Null))

\* parse that reports a missing method as PARSE_ERROR
request_parse_MissingIsParseError(root) ==
    IF ~is_object(root)
    THEN ReqErr(parse_error("request must be an object"))
    ELSE IF ~has_key(root, "method")
    THEN ReqErr(parse_error("missing field: method"))
    ELSE IF ~is_string(root.kv["method"]) \/ root.kv["method"].s = ""
    THEN ReqErr(invalid_params("method must be a non-empty string"))
    ELSE IF has_key(root, "id") /\ ~id_allowed(root.kv["id"])
    THEN ReqErr(invalid_params("id must be string, int, or null"))
    ELSE ReqOk(RpcRequest(IF has_key(root, "id") THEN root.kv["id"] ELSE Null,
                          root.kv["method"].s,
                          IF has_key(root, "params")
                          THEN root.kv["params"] ELSE Null))

\* parse that does not take the params over
request_parse_DropsParams(root) ==
    IF ~is_object(root)
    THEN ReqErr(parse_error("request must be an object"))
    ELSE IF ~has_key(root, "method")
    THEN ReqErr(invalid_params("missing field: method"))
    ELSE IF ~is_string(root.kv["method"]) \/ root.kv["method"].s = ""
    THEN ReqErr(invalid_params("method must be a non-empty string"))
    ELSE IF has_key(root, "id") /\ ~id_allowed(root.kv["id"])
    THEN ReqErr(invalid_params("id must be string, int, or null"))
    ELSE ReqOk(RpcRequest(IF has_key(root, "id") THEN root.kv["id"] ELSE Null,
                          root.kv["method"].s,
                          Null))

\* parse that takes an id written as null for an id of a wrong kind
request_parse_RejectsNullId(root) ==
    IF ~is_object(root)
    THEN ReqErr(parse_error("request must be an object"))
    ELSE IF ~has_key(root, "method")
    THEN ReqErr(invalid_params("missing field: method"))
    ELSE IF ~is_string(root.kv["method"]) \/ root.kv["method"].s = ""
    THEN ReqErr(invalid_params("method must be a non-empty string"))
    ELSE IF has_key(root, "id") /\ ~(is_string(root.kv["id"]) \/ is_i64(root.kv["id"]))
    THEN ReqErr(invalid_params("id must be string, int, or null"))
    ELSE ReqOk(RpcRequest(IF has_key(root, "id") THEN root.kv["id"] ELSE Null,
                          root.kv["method"].s,
                          IF has_key(root, "params")
                          THEN root.kv["params"] ELSE Null))

request_parse(root) ==
    IF ~is_object(root)
    THEN ReqErr(parse_error("request must be an object"))
    ELSE IF ~has_key(root, "method")
    THEN ReqErr(invalid_params("missing field: method"))
    ELSE IF ~is_string(root.kv["method"]) \/ root.kv["method"].s = ""
    THEN ReqErr(invalid_params("method must be a non-empty string"))
    ELSE IF has_key(root, "id") /\ ~id_allowed(root.kv["id"])
    THEN ReqErr(invalid_params("id must be string, int, or null"))
    ELSE ReqOk(RpcRequest(IF has_key(root, "id") THEN root.kv["id"] ELSE Null,
                          root.kv["method"].s,
                          IF has_key(root, "params")
                          THEN root.kv["params"] ELSE Null))

(***************************************************************************)
(* RpcResponse                                                             *)
(***************************************************************************)
RpcResponse(i, r, e, h) == [id |-> i, result |-> r, error |-> e, has_error |-> h]

NoResponse == RpcResponse(Null, Null, NoError, FALSE)

response_ok(i, r) == RpcResponse(i, r, NoError, FALSE)

response_fail(i, e) == RpcResponse(i, Null, e, TRUE)

\* to_json that writes the result key of an error response too
response_to_json_Both(r) ==
    IF r.has_error
    THEN Obj("id" :> r.id @@ "result" :> r.result @@ "error" :> error_to_json(r.error))
    ELSE Obj("id" :> r.id @@ "result" :> r.result)

\* to_json that writes the code of the error in place of the error object
response_to_json_ErrorString(r) ==
    IF r.has_error
    THEN Obj("id" :> r.id @@ "error" :> Str(r.error.code))
    ELSE Obj("id" :> r.id @@ "result" :> r.result)

response_to_json(r) ==
    IF r.has_error
    THEN Obj("id" :> r.id @@ "error" :> error_to_json(r.error))
    ELSE Obj("id" :> r.id @@ "result" :> r.result)

\* std::variant<RpcResponse, RpcError>
RespOk(r) == [is_err |-> FALSE, resp |-> r, err |-> NoError]

RespErr(e) == [is_err |-> TRUE, resp |-> NoResponse, err |-> e]

\* parse that validates the error value before it counts the keys
response_parse_ErrorFirst(root) ==
    IF ~is_object(root)
    THEN RespErr(parse_error("response must be an object"))
    ELSE IF has_key(root, "id") /\ ~id_allowed(root.kv["id"])
    THEN RespErr(invalid_params("id must be string, int, or null"))
    ELSE IF has_key(root, "error") /\ ~error_parse(root.kv["error"]).ok_
    THEN RespErr(error_parse(root.kv["error"]).error_)
    ELSE IF has_key(root, "result") /\ has_key(root, "error")
    THEN RespErr(invalid_params("response cannot contain both result and error"))
    ELSE IF ~has_key(root, "result") /\ ~has_key(root, "error")
    THEN RespErr(invalid_params("response must contain result or error"))
    ELSE IF has_key(root, "error")
    THEN RespOk(RpcResponse(IF has_key(root, "id") THEN root.kv["id"] ELSE Null,
                            Null,
                            error_parse(root.kv["error"]).value_,
                            TRUE))
    ELSE RespOk(RpcResponse(IF has_key(root, "id") THEN root.kv["id"] ELSE Null,
                            root.kv["result"],
                            NoError,
                            FALSE))

\* parse that reports a malformed error value as INVALID_PARAMS of its own
response_parse_WrapsError(root) ==
    IF ~is_object(root)
    THEN RespErr(parse_error("response must be an object"))
    ELSE IF has_key(root, "id") /\ ~id_allowed(root.kv["id"])
    THEN RespErr(invalid_params("id must be string, int, or null"))
    ELSE IF has_key(root, "result") /\ has_key(root, "error")
    THEN RespErr(invalid_params("response cannot contain both result and error"))
    ELSE IF ~has_key(root, "result") /\ ~has_key(root, "error")
    THEN RespErr(invalid_params("response must contain result or error"))
    ELSE IF has_key(root, "error")
    THEN IF ~error_parse(root.kv["error"]).ok_
         THEN RespErr(invalid_params("error is malformed"))
         ELSE RespOk(RpcResponse(IF has_key(root, "id") THEN root.kv["id"] ELSE Null,
                                 Null,
                                 error_parse(root.kv["error"]).value_,
                                 TRUE))
    ELSE RespOk(RpcResponse(IF has_key(root, "id") THEN root.kv["id"] ELSE Null,
                            root.kv["result"],
                            NoError,
                            FALSE))

response_parse(root) ==
    IF ~is_object(root)
    THEN RespErr(parse_error("response must be an object"))
    ELSE IF has_key(root, "id") /\ ~id_allowed(root.kv["id"])
    THEN RespErr(invalid_params("id must be string, int, or null"))
    ELSE IF has_key(root, "result") /\ has_key(root, "error")
    THEN RespErr(invalid_params("response cannot contain both result and error"))
    ELSE IF ~has_key(root, "result") /\ ~has_key(root, "error")
    THEN RespErr(invalid_params("response must contain result or error"))
    ELSE IF has_key(root, "error")
    THEN IF ~error_parse(root.kv["error"]).ok_
         THEN RespErr(error_parse(root.kv["error"]).error_)
         ELSE RespOk(RpcResponse(IF has_key(root, "id") THEN root.kv["id"] ELSE Null,
                                 Null,
                                 error_parse(root.kv["error"]).value_,
                                 TRUE))
    ELSE RespOk(RpcResponse(IF has_key(root, "id") THEN root.kv["id"] ELSE Null,
                            root.kv["result"],
                            NoError,
                            FALSE))

(***************************************************************************)
(* Context and handlers.  Context::MetaMap* is a pointer: null, or a map   *)
(* of strings.  The handlers are the ones the tests and examples register. *)
(***************************************************************************)
NoMeta == [present |-> FALSE, map |-> NoKv]

SomeMeta(f) == [present |-> TRUE, map |-> f]

Context(m, p, i, tr, me) ==
    [method |-> m, params |-> p, id |-> i, transport |-> tr, meta |-> me]

\* Context::meta_value: the stored value, or an empty view when there is no
\* map or no such key
meta_value(ctx, key) ==
    IF ~ctx.meta.present
    THEN ""
    ELSE IF key \notin DOMAIN ctx.meta.map
    THEN ""
    ELSE ctx.meta.map[key]

\* has_meta that only looks whether a map was supplied
has_meta_MapOnly(ctx, key) == ctx.meta.present

\* Context::has_meta
has_meta(ctx, key) ==
    IF ~ctx.meta.present
    THEN FALSE
    ELSE key \in DOMAIN ctx.meta.map

\* Context::has_id
context_has_id(ctx) == ~is_null(ctx.id)

\* std::variant<token, RpcError>
ResultOk(v) == [is_err |-> FALSE, val |-> v, err |-> NoError]

ResultErr(e) == [is_err |-> TRUE, val |-> Null, err |-> e]

\* the "echo" handler: returns ctx.params
h_echo(ctx) == ResultOk(ctx.params)

\* the "math.add" handler: {sum: a + b}, or INVALID_PARAMS
h_add(ctx) ==
    IF ~is_object(ctx.params)
    THEN ResultErr(invalid_params("params must be an object"))
    ELSE IF ~has_key(ctx.params, "a") \/ ~has_key(ctx.params, "b")
    THEN ResultErr(invalid_params("a and b must be int"))
    ELSE IF ~is_i64(ctx.params.kv["a"]) \/ ~is_i64(ctx.params.kv["b"])
    THEN ResultErr(invalid_params("a and b must be int"))
    ELSE ResultOk(Obj("sum" :> I64(ctx.params.kv["a"].n + ctx.params.kv["b"].n)))

Handlers == {"h_echo", "h_add"}

\* it->second(ctx)
invoke(h, ctx) == IF h = "h_echo" THEN h_echo(ctx) ELSE h_add(ctx)

(***************************************************************************)
(* Router.  handlers_ is a function from the registered names to handlers. *)
(* A dispatch yields the RpcResult and the handler invocations it made.    *)
(***************************************************************************)
Dispatched(o, i) == [out |-> o, inv |-> i]

Invocation(h, ctx) == [h |-> h, ctx |-> ctx]

\* add that keeps the handler of a name that is already registered
router_add_KeepsExisting(reg, name, h) ==
    [n \in DOMAIN reg \cup {name} |-> IF n \in DOMAIN reg THEN reg[n] ELSE h]

router_add(reg, name, h) ==
    [n \in DOMAIN reg \cup {name} |-> IF n = name THEN h ELSE reg[n]]

\* remove that empties the registry
router_remove_Clears(reg, name) == [n \in {} |-> reg[n]]

router_remove(reg, name) == [n \in DOMAIN reg \ {name} |-> reg[n]]

\* handlers_.erase(name) > 0 : the number of entries erased is positive
router_remove_ret(reg, name) ==
    Cardinality(DOMAIN reg) - Cardinality(DOMAIN router_remove(reg, name)) > 0

\* has that only looks whether anything is registered
router_has_AnyName(reg, name) == DOMAIN reg # {}

router_has(reg, name) == name \in DOMAIN reg

router_size(reg) == Cardinality(DOMAIN reg)

\* dispatch that reports an unregistered method without naming it
router_dispatch_NotFoundUnnamed(reg, req, tr, me) ==
    IF ~request_valid(req)
    THEN Dispatched(ResultErr(invalid_params("invalid rpc request")), <<>>)
    ELSE IF req.method \notin DOMAIN reg
    THEN Dispatched(ResultErr(method_not_found("")), <<>>)
    ELSE Dispatched(
           invoke(reg[req.method], Context(req.method, req.params, req.id, tr, me)),
           <<Invocation(reg[req.method],
                        Context(req.method, req.params, req.id, tr, me))>>)

\* dispatch that looks the method up before it checks the request
router_dispatch_LookupFirst(reg, req, tr, me) ==
    IF req.method \in DOMAIN reg
    THEN Dispatched(
           invoke(reg[req.method], Context(req.method, req.params, req.id, tr, me)),
           <<Invocation(reg[req.method],
                        Context(req.method, req.params, req.id, tr, me))>>)
    ELSE IF ~request_valid(req)
    THEN Dispatched(ResultErr(invalid_params("invalid rpc request")), <<>>)
    ELSE Dispatched(ResultErr(method_not_found(req.method)), <<>>)

\* dispatch that turns the RpcError of a handler into an INTERNAL_ERROR
router_dispatch_WrapsHandlerError(reg, req, tr, me) ==
    IF ~request_valid(req)
    THEN Dispatched(ResultErr(invalid_params("invalid rpc request")), <<>>)
    ELSE IF req.method \notin DOMAIN reg
    THEN Dispatched(ResultErr(method_not_found(req.method)), <<>>)
    ELSE Dispatched(
           IF invoke(reg[req.method],
                     Context(req.method, req.params, req.id, tr, me)).is_err
           THEN ResultErr(internal_error("handler failed"))
           ELSE invoke(reg[req.method], Context(req.method, req.params, req.id, tr, me)),
           <<Invocation(reg[req.method],
                        Context(req.method, req.params, req.id, tr, me))>>)

\* dispatch that serves only the calls that carry no transport label
router_dispatch_TransportScoped(reg, req, tr, me) ==
    IF ~request_valid(req)
    THEN Dispatched(ResultErr(invalid_params("invalid rpc request")), <<>>)
    ELSE IF req.method \notin DOMAIN reg \/ tr # ""
    THEN Dispatched(ResultErr(method_not_found(req.method)), <<>>)
    ELSE Dispatched(
           invoke(reg[req.method], Context(req.method, req.params, req.id, tr, me)),
           <<Invocation(reg[req.method],
                        Context(req.method, req.params, req.id, tr, me))>>)

router_dispatch(reg, req, tr, me) ==
    IF ~request_valid(req)
    THEN Dispatched(ResultErr(invalid_params("invalid rpc request")), <<>>)
    ELSE IF req.method \notin DOMAIN reg
    THEN Dispatched(ResultErr(method_not_found(req.method)), <<>>)
    ELSE Dispatched(
           invoke(reg[req.method], Context(req.method, req.params, req.id, tr, me)),
           <<Invocation(reg[req.method],
                        Context(req.method, req.params, req.id, tr, me))>>)

\* the raw overload dispatching whatever the parse left, error or not
router_dispatch_raw_IgnoresParseError(reg, raw, tr, me) ==
    router_dispatch(reg, request_parse(raw).req, tr, me)

router_dispatch_raw(reg, raw, tr, me) ==
    IF request_parse(raw).is_err
    THEN Dispatched(ResultErr(request_parse(raw).err), <<>>)
    ELSE router_dispatch(reg, request_parse(raw).req, tr, me)

(***************************************************************************)
(* Dispatcher.  It holds a reference to the Router, so every call reads    *)
(* the registry as it is at the time of the call.                          *)
(***************************************************************************)
\* std::optional<RpcResponse> plus the invocations made
OneNothing(i) == [has |-> FALSE, resp |-> NoResponse, inv |-> i]

OneResponse(r, i) == [has |-> TRUE, resp |-> r, inv |-> i]

\* handle_one that does not dispatch a notification
handle_one_SkipsNotification(reg, payload, tr, me) ==
    IF request_parse(payload).is_err
    THEN OneResponse(response_fail(Null, request_parse(payload).err), <<>>)
    ELSE LET req == request_parse(payload).req
             d   == router_dispatch(reg, req, tr, me)
         IN  IF is_null(req.id)
             THEN OneNothing(<<>>)
             ELSE IF d.out.is_err
             THEN OneResponse(response_fail(req.id, d.out.err), d.inv)
             ELSE OneResponse(response_ok(req.id, d.out.val), d.inv)

\* handle_one that echoes the id field of a payload that failed to parse
handle_one_EchoesRawId(reg, payload, tr, me) ==
    IF request_parse(payload).is_err
    THEN OneResponse(response_fail(IF has_key(payload, "id")
                                   THEN payload.kv["id"] ELSE Null,
                                   request_parse(payload).err), <<>>)
    ELSE LET req == request_parse(payload).req
             d   == router_dispatch(reg, req, tr, me)
         IN  IF is_null(req.id)
             THEN OneNothing(d.inv)
             ELSE IF d.out.is_err
             THEN OneResponse(response_fail(req.id, d.out.err), d.inv)
             ELSE OneResponse(response_ok(req.id, d.out.val), d.inv)

\* handle_one that answers a dispatch error with a null id
handle_one_FailDropsId(reg, payload, tr, me) ==
    IF request_parse(payload).is_err
    THEN OneResponse(response_fail(Null, request_parse(payload).err), <<>>)
    ELSE LET req == request_parse(payload).req
             d   == router_dispatch(reg, req, tr, me)
         IN  IF is_null(req.id)
             THEN OneNothing(d.inv)
             ELSE IF d.out.is_err
             THEN OneResponse(response_fail(Null, d.out.err), d.inv)
             ELSE OneResponse(response_ok(req.id, d.out.val), d.inv)

\* handle_one that takes every object without a usable id for a notification
handle_one_RawIdFirst(reg, payload, tr, me) ==
    IF is_object(payload) /\ (~has_key(payload, "id") \/ is_null(payload.kv["id"]))
    THEN IF request_parse(payload).is_err
         THEN OneNothing(<<>>)
         ELSE OneNothing(router_dispatch(reg, request_parse(payload).req, tr, me).inv)
    ELSE IF request_parse(payload).is_err
    THEN OneResponse(response_fail(Null, request_parse(payload).err), <<>>)
    ELSE LET req == request_parse(payload).req
             d   == router_dispatch(reg, req, tr, me)
         IN  IF d.out.is_err
             THEN OneResponse(response_fail(req.id, d.out.err), d.inv)
             ELSE OneResponse(response_ok(req.id, d.out.val), d.inv)

handle_one(reg, payload, tr, me) ==
    IF request_parse(payload).is_err
    THEN OneResponse(response_fail(Null, request_parse(payload).err), <<>>)
    ELSE LET req == request_parse(payload).req
             d   == router_dispatch(reg, req, tr, me)
         IN  IF is_null(req.id)
             THEN OneNothing(d.inv)
             ELSE IF d.out.is_err
             THEN OneResponse(response_fail(req.id, d.out.err), d.inv)
             ELSE OneResponse(response_ok(req.id, d.out.val), d.inv)

\* std::optional<token> plus the invocations made
TokNothing(i) == [has |-> FALSE, tok |-> Null, inv |-> i]

TokSome(v, i) == [has |-> TRUE, tok |-> v, inv |-> i]

\* the loop putting each entry in front of the ones collected so far
RECURSIVE batch_loop_Prepends(_, _, _, _, _, _, _)
batch_loop_Prepends(reg, elems, k, out_arr, inv, tr, me) ==
    IF k > Len(elems)
    THEN [out_arr |-> out_arr, inv |-> inv]
    ELSE IF ~is_object(elems[k])
    THEN batch_loop_Prepends(reg, elems, k + 1,
                    <<response_to_json(response_fail(Null,
                          parse_error("batch item must be an object")))>> \o out_arr,
                    inv, tr, me)
    ELSE LET r == handle_one(reg, elems[k], tr, me)
         IN  IF ~r.has
             THEN batch_loop_Prepends(reg, elems, k + 1, out_arr, inv \o r.inv, tr, me)
             ELSE batch_loop_Prepends(reg, elems, k + 1,
                             <<response_to_json(r.resp)>> \o out_arr,
                             inv \o r.inv, tr, me)

\* the loop leaving at the first item that is not an object
RECURSIVE batch_loop_Aborts(_, _, _, _, _, _, _)
batch_loop_Aborts(reg, elems, k, out_arr, inv, tr, me) ==
    IF k > Len(elems)
    THEN [out_arr |-> out_arr, inv |-> inv]
    ELSE IF ~is_object(elems[k])
    THEN [out_arr |-> Append(out_arr,
                             response_to_json(response_fail(Null,
                                 parse_error("batch item must be an object")))),
          inv |-> inv]
    ELSE LET r == handle_one(reg, elems[k], tr, me)
         IN  IF ~r.has
             THEN batch_loop_Aborts(reg, elems, k + 1, out_arr, inv \o r.inv, tr, me)
             ELSE batch_loop_Aborts(reg, elems, k + 1,
                             Append(out_arr, response_to_json(r.resp)),
                             inv \o r.inv, tr, me)

\* the loop pushing a null entry for an item that gets no response
RECURSIVE batch_loop_KeepsNothing(_, _, _, _, _, _, _)
batch_loop_KeepsNothing(reg, elems, k, out_arr, inv, tr, me) ==
    IF k > Len(elems)
    THEN [out_arr |-> out_arr, inv |-> inv]
    ELSE IF ~is_object(elems[k])
    THEN batch_loop_KeepsNothing(reg, elems, k + 1,
                    Append(out_arr,
                           response_to_json(response_fail(Null,
                               parse_error("batch item must be an object")))),
                    inv, tr, me)
    ELSE LET r == handle_one(reg, elems[k], tr, me)
         IN  IF ~r.has
             THEN batch_loop_KeepsNothing(reg, elems, k + 1, Append(out_arr, Null),
                                          inv \o r.inv, tr, me)
             ELSE batch_loop_KeepsNothing(reg, elems, k + 1,
                             Append(out_arr, response_to_json(r.resp)),
                             inv \o r.inv, tr, me)

\* the for loop of handle_batch from item k on; out_arr and inv accumulate
RECURSIVE batch_loop(_, _, _, _, _, _, _)
batch_loop(reg, elems, k, out_arr, inv, tr, me) ==
    IF k > Len(elems)
    THEN [out_arr |-> out_arr, inv |-> inv]
    ELSE IF ~is_object(elems[k])
    THEN batch_loop(reg, elems, k + 1,
                    Append(out_arr,
                           response_to_json(response_fail(Null,
                               parse_error("batch item must be an object")))),
                    inv, tr, me)
    ELSE LET r == handle_one(reg, elems[k], tr, me)
         IN  IF ~r.has
             THEN batch_loop(reg, elems, k + 1, out_arr, inv \o r.inv, tr, me)
             ELSE batch_loop(reg, elems, k + 1,
                             Append(out_arr, response_to_json(r.resp)),
                             inv \o r.inv, tr, me)

\* handle_batch without the check for an empty batch
handle_batch_NoEmptyCheck(reg, payload, tr, me) ==
    IF ~is_array(payload)
    THEN TokSome(response_to_json(response_fail(Null,
                     parse_error("batch must be an array"))), <<>>)
    ELSE LET l == batch_loop(reg, payload.el, 1, <<>>, <<>>, tr, me)
         IN  IF Len(l.out_arr) = 0
             THEN TokNothing(l.inv)
             ELSE TokSome(Arr(l.out_arr), l.inv)

\* handle_batch returning the output array even when it is empty
handle_batch_EmptyArray(reg, payload, tr, me) ==
    IF ~is_array(payload)
    THEN TokSome(response_to_json(response_fail(Null,
                     parse_error("batch must be an array"))), <<>>)
    ELSE IF Len(payload.el) = 0
    THEN TokSome(response_to_json(response_fail(Null,
                     invalid_params("batch must not be empty"))), <<>>)
    ELSE LET l == batch_loop(reg, payload.el, 1, <<>>, <<>>, tr, me)
         IN  TokSome(Arr(l.out_arr), l.inv)

handle_batch(reg, payload, tr, me) ==
    IF ~is_array(payload)
    THEN TokSome(response_to_json(response_fail(Null,
                     parse_error("batch must be an array"))), <<>>)
    ELSE IF Len(payload.el) = 0
    THEN TokSome(response_to_json(response_fail(Null,
                     invalid_params("batch must not be empty"))), <<>>)
    ELSE LET l == batch_loop(reg, payload.el, 1, <<>>, <<>>, tr, me)
         IN  IF Len(l.out_arr) = 0
             THEN TokNothing(l.inv)
             ELSE TokSome(Arr(l.out_arr), l.inv)

\* handle that treats every payload as one request
handle_NoBatch(reg, payload, tr, me) ==
    LET r == handle_one(reg, payload, tr, me)
    IN  IF ~r.has
        THEN TokNothing(r.inv)
        ELSE TokSome(response_to_json(r.resp), r.inv)

handle(reg, payload, tr, me) ==
    IF is_array(payload)
    THEN handle_batch(reg, payload, tr, me)
    ELSE LET r == handle_one(reg, payload, tr, me)
         IN  IF ~r.has
             THEN TokNothing(r.inv)
             ELSE TokSome(response_to_json(r.resp), r.inv)

(***************************************************************************)
(* Inputs.  A field of an input object is absent or holds a token.         *)
(***************************************************************************)
MaxBatch == 3

Some(x) == [has |-> TRUE, v |-> x]

Absent == [has |-> FALSE, v |-> Null]

\* obj({...}) with the fields that are present
MkObj(fields) ==
    Obj([k \in {x \in DOMAIN fields : fields[x].has} |-> fields[k].v])

Names == {"echo", "math.add", ""}

Transports == {"", "http"}

\* the metadata maps and keys given to the lookups of Context
MetaChoices ==
    {NoMeta, SomeMeta(NoKv), SomeMeta("peer" :> "10.0.0.1"), SomeMeta("peer" :> ""),
     SomeMeta("peer" :> "10.0.0.1" @@ "trace" :> "t1")}

MetaKeys == {"peer", "trace", "user", ""}

\* the texts given to the constructors of RpcError
ErrorTexts == {"", "missing.method", "bad type", "boom"}

Metas == {NoMeta}

IdChoices ==
    {Absent, Some(Null), Some(I64(1)), Some(I64(2)), Some(Str("a")), Some(Bool(TRUE))}

MethodChoices ==
    {Absent, Some(Str("echo")), Some(Str("math.add")), Some(Str("missing.method")),
     Some(Str("")), Some(I64(5))}

ParamChoices ==
    {Absent, Some(Null), Some(Obj("a" :> I64(7) @@ "b" :> I64(5))),
     Some(Obj("x" :> I64(10))), Some(Arr(<<I64(1)>>))}

NonObjects == {Null, Bool(TRUE), I64(3), Str("bad")}

RequestObjects ==
    {MkObj("id" :> i @@ "method" :> m @@ "params" :> p) :
        i \in IdChoices, m \in MethodChoices, p \in ParamChoices}

SinglePayloads == RequestObjects \cup NonObjects

ReqEcho1 == Obj("id" :> I64(1) @@ "method" :> Str("echo") @@ "params" :> Obj("x" :> I64(10)))

NotifEcho == Obj("method" :> Str("echo") @@ "params" :> Obj("y" :> I64(20)))

ReqAdd2 ==
    Obj("id" :> I64(2) @@ "method" :> Str("math.add")
        @@ "params" :> Obj("a" :> I64(7) @@ "b" :> I64(5)))

NoMethod7 == Obj("id" :> I64(7))

BatchItems ==
    {ReqEcho1, NotifEcho, ReqAdd2, NoMethod7, Str("bad"), Arr(<<ReqEcho1>>)}

\* a non-object of every other kind, before and after a well-formed request
MixedBatches ==
    {Arr(<<x, ReqEcho1>>) : x \in {Null, Bool(TRUE), I64(3)}}
    \cup {Arr(<<ReqEcho1, x>>) : x \in {Null, Bool(TRUE), I64(3)}}

\* objects that do not parse and carry no id, or a null one
NoIdNoMethod == Obj("params" :> Obj("y" :> I64(20)))

NullIdEmptyMethod == Obj("id" :> Null @@ "method" :> Str(""))

\* such an object before and after a notification
UnparsableBatches ==
    {Arr(<<x, NotifEcho>>) : x \in {NoIdNoMethod, NullIdEmptyMethod}}
    \cup {Arr(<<NotifEcho, x>>) : x \in {NoIdNoMethod, NullIdEmptyMethod}}

BatchPayloads ==
    {Arr(q) : q \in UNION {[1..k -> BatchItems] : k \in 0..MaxBatch}}
    \cup MixedBatches \cup UnparsableBatches

Payloads == SinglePayloads \cup BatchPayloads

ResponseIds == {Null, I64(1), Str("a")}

ResponseResults == {Null, I64(3), Obj("sum" :> I64(12))}

ResponseErrors ==
    {NoError, invalid_params("bad"), internal_error("boom"), method_not_found("m")}

ErrorChoices ==
    {Absent,
     Some(error_to_json(invalid_params("bad"))),
     Some(error_to_json(internal_error("boom"))),
     Some(Obj("code" :> Str("E") @@ "message" :> Str(""))),
     Some(Obj("code" :> Str("E"))),
     Some(Obj("code" :> I64(1) @@ "message" :> Str("m"))),
     Some(Obj("code" :> Str("") @@ "message" :> Str("m"))),
     Some(Str("oops")),
     Some(Null)}

ResultChoices == {Absent, Some(Null), Some(I64(3)), Some(Obj("sum" :> I64(12)))}

ResponseRoots ==
    {MkObj("id" :> i @@ "result" :> r @@ "error" :> e) :
        i \in {Absent, Some(Null), Some(I64(1)), Some(Str("a")), Some(Bool(TRUE))},
        r \in ResultChoices, e \in ErrorChoices}
    \cup {Null, Str("bad"), Arr(<<>>)}

\* roots for RpcRequest::parse: the single payloads, an array, and objects
\* whose id is an object or an array
RequestRoots ==
    SinglePayloads
    \cup {Arr(<<ReqEcho1>>)}
    \cup {MkObj("id" :> Some(i) @@ "method" :> m @@ "params" :> Absent) :
            i \in {Obj(NoKv), Arr(<<>>)}, m \in MethodChoices}

\* requests as a caller constructs them (the method may be empty)
Requests ==
    {RpcRequest(i, m, p) :
        i \in {Null, I64(42), Str("id1")},
        m \in {"echo", "math.add", "missing.method", ""},
        p \in {Null, Obj("a" :> I64(7) @@ "b" :> I64(5)), Arr(<<I64(1)>>)}}

\* roots for RpcError::parse
ErrorRoots ==
    {MkObj("code" :> c @@ "message" :> m @@ "details" :> d) :
        c \in {Absent, Some(Str("E")), Some(Str("")), Some(I64(1))},
        m \in {Absent, Some(Str("m")), Some(Str("")), Some(Bool(TRUE))},
        d \in {Absent, Some(Null), Some(Obj("reason" :> Str("invalid json"))),
               Some(Str("d"))}}
    \cup {Null, Str("oops"), Arr(<<>>)}

\* errors as a caller constructs them (the code may be empty)
Errors ==
    {RpcError(c, m, d) :
        c \in {"", "E", "PARSE_ERROR"},
        m \in {"", "Failed to parse RPC payload"},
        d \in {Null, Obj("reason" :> Str("invalid json")), Str("d"), Arr(<<Null>>)}}

(***************************************************************************)
(* State.  handlers_ is the Router's registry.  call is the call in        *)
(* progress at the caller: the operation, its arguments and what it        *)
(* returned; it is idle between calls.                                     *)
(***************************************************************************)
\* hist is a history variable: for every name, the handler of the most
\* recent add if no remove followed it ("none" otherwise), and the handler
\* that add replaced ("none" if the name was not registered then).
VARIABLES handlers_, call, hist, thr

vars == <<handlers_, call, hist, thr>>

NoneTok == [has |-> FALSE, v |-> Null]

NoneResp == [has |-> FALSE, v |-> NoResponse]

NoneErr == [has |-> FALSE, v |-> NoError]

NoneReq == [has |-> FALSE, v |-> NoRequest]

NoErrParse == [ok_ |-> FALSE, value_ |-> NoError, error_ |-> NoError]

NoHistory == [n \in Names |-> [last |-> "none", over |-> "none"]]

\* the threads that call Router::dispatch at the same time
Threads == {1, 2}

\* a thread that is not in a call.  pc is its position in Router::dispatch,
\* it the handler that find() reached, raced whether add or remove ran while
\* the call was under way, alone what the call returns when nothing else
\* runs between its entry and its return
NoThread ==
    [pc |-> "idle", request |-> NoRequest, it |-> "end", result |-> ResultOk(Null),
     invoked |-> <<>>, raced |-> FALSE, alone |-> Dispatched(ResultOk(Null), <<>>)]

NoCall ==
    [op |-> "idle", payload |-> Null, transport |-> "", meta |-> NoMeta,
     id |-> Null, name |-> "", h |-> "", error |-> NoError, flag |-> FALSE,
     out |-> NoneTok, resp |-> NoneResp, err |-> NoneErr, invoked |-> <<>>,
     request |-> NoRequest, req |-> NoneReq, epr |-> NoErrParse,
     result |-> ResultOk(Null), key |-> "", sv |-> "", state |-> "",
     idx |-> 0, out_arr |-> <<>>, count |-> 0]

Init ==
    /\ handlers_ = NoKv
    /\ call = NoCall
    /\ hist = NoHistory
    /\ thr = [t \in Threads |-> NoThread]

\* Router::add
Add(name, h) ==
    /\ call.op = "idle"
    /\ handlers_' = router_add(handlers_, name, h)
    /\ call' = [NoCall EXCEPT !.op = "add", !.name = name, !.h = h]

\* Router::remove
Remove(name) ==
    /\ call.op = "idle"
    /\ handlers_' = router_remove(handlers_, name)
    /\ call' = [NoCall EXCEPT !.op = "remove", !.name = name,
                              !.flag = router_remove_ret(handlers_, name)]

\* handle on a Dispatcher that kept the registry it was built with
Handle_Snapshot(payload, tr, me) ==
    /\ call.op = "idle"
    /\ LET r == handle(NoKv, payload, tr, me)
       IN  call' = [NoCall EXCEPT !.op = "handle", !.payload = payload,
                                  !.transport = tr, !.meta = me,
                                  !.out = [has |-> r.has, v |-> r.tok],
                                  !.invoked = r.inv]
    /\ UNCHANGED handlers_

\* Dispatcher::handle
Handle(payload, tr, me) ==
    /\ call.op = "idle"
    /\ LET r == handle(handlers_, payload, tr, me)
       IN  call' = [NoCall EXCEPT !.op = "handle", !.payload = payload,
                                  !.transport = tr, !.meta = me,
                                  !.out = [has |-> r.has, v |-> r.tok],
                                  !.invoked = r.inv]
    /\ UNCHANGED handlers_

\* Dispatcher::handle_one
HandleOne(payload, tr, me) ==
    /\ call.op = "idle"
    /\ LET r == handle_one(handlers_, payload, tr, me)
       IN  call' = [NoCall EXCEPT !.op = "handle_one", !.payload = payload,
                                  !.transport = tr, !.meta = me,
                                  !.resp = [has |-> r.has, v |-> r.resp],
                                  !.invoked = r.inv]
    /\ UNCHANGED handlers_

\* RpcResponse::ok
ResponseOk(i, r) ==
    /\ call.op = "idle"
    /\ call' = [NoCall EXCEPT !.op = "ok", !.id = i, !.payload = r,
                              !.resp = Some(response_ok(i, r))]
    /\ UNCHANGED handlers_

\* RpcResponse::fail
ResponseFail(i, e) ==
    /\ call.op = "idle"
    /\ call' = [NoCall EXCEPT !.op = "fail", !.id = i, !.error = e,
                              !.resp = Some(response_fail(i, e))]
    /\ UNCHANGED handlers_

\* RpcResponse::parse
ResponseParse(root) ==
    /\ call.op = "idle"
    /\ LET r == response_parse(root)
       IN  call' = [NoCall EXCEPT !.op = "response_parse", !.payload = root,
                                  !.resp = [has |-> ~r.is_err, v |-> r.resp],
                                  !.err = [has |-> r.is_err, v |-> r.err]]
    /\ UNCHANGED handlers_

\* RpcRequest::parse
RequestParse(root) ==
    /\ call.op = "idle"
    /\ LET r == request_parse(root)
       IN  call' = [NoCall EXCEPT !.op = "request_parse", !.payload = root,
                                  !.req = [has |-> ~r.is_err, v |-> r.req],
                                  !.err = [has |-> r.is_err, v |-> r.err]]
    /\ UNCHANGED handlers_

\* RpcRequest::to_json
RequestToJson(r) ==
    /\ call.op = "idle"
    /\ call' = [NoCall EXCEPT !.op = "request_to_json", !.request = r,
                              !.out = Some(request_to_json(r))]
    /\ UNCHANGED handlers_

\* RpcError::parse
ErrorParse(root) ==
    /\ call.op = "idle"
    /\ call' = [NoCall EXCEPT !.op = "error_parse", !.payload = root,
                              !.epr = error_parse(root)]
    /\ UNCHANGED handlers_

\* RpcError::to_json
ErrorToJson(e) ==
    /\ call.op = "idle"
    /\ call' = [NoCall EXCEPT !.op = "error_to_json", !.error = e,
                              !.out = Some(error_to_json(e))]
    /\ UNCHANGED handlers_

\* a dispatch that takes the handler out of the registry once it has run
Dispatch_OneShot(r, tr, me) ==
    /\ call.op = "idle"
    /\ LET d == router_dispatch(handlers_, r, tr, me)
       IN  /\ call' = [NoCall EXCEPT !.op = "dispatch", !.request = r,
                                     !.transport = tr, !.meta = me,
                                     !.result = d.out, !.invoked = d.inv]
           /\ handlers_' = IF Len(d.inv) = 0
                           THEN handlers_
                           ELSE router_remove(handlers_, r.method)

\* Router::dispatch(const RpcRequest&)
Dispatch(r, tr, me) ==
    /\ call.op = "idle"
    /\ LET d == router_dispatch(handlers_, r, tr, me)
       IN  call' = [NoCall EXCEPT !.op = "dispatch", !.request = r,
                                  !.transport = tr, !.meta = me,
                                  !.result = d.out, !.invoked = d.inv]
    /\ UNCHANGED handlers_

\* Router::dispatch(const vix::json::token &, ...)
DispatchRaw(raw, tr, me) ==
    /\ call.op = "idle"
    /\ LET d == router_dispatch_raw(handlers_, raw, tr, me)
       IN  call' = [NoCall EXCEPT !.op = "dispatch_raw", !.payload = raw,
                                  !.transport = tr, !.meta = me,
                                  !.result = d.out, !.invoked = d.inv]
    /\ UNCHANGED handlers_

\* RpcError::method_not_found
MethodNotFound(m) ==
    /\ call.op = "idle"
    /\ call' = [NoCall EXCEPT !.op = "method_not_found", !.name = m,
                              !.error = method_not_found(m)]
    /\ UNCHANGED handlers_

\* RpcError::invalid_params
InvalidParams(r) ==
    /\ call.op = "idle"
    /\ call' = [NoCall EXCEPT !.op = "invalid_params", !.name = r,
                              !.error = invalid_params(r)]
    /\ UNCHANGED handlers_

\* RpcError::parse_error
ParseError(r) ==
    /\ call.op = "idle"
    /\ call' = [NoCall EXCEPT !.op = "parse_error", !.name = r,
                              !.error = parse_error(r)]
    /\ UNCHANGED handlers_

\* RpcError::internal_error
InternalError(msg) ==
    /\ call.op = "idle"
    /\ call' = [NoCall EXCEPT !.op = "internal_error", !.name = msg,
                              !.error = internal_error(msg)]
    /\ UNCHANGED handlers_

\* Context::meta_value on a Context built with the metadata me
MetaValue(me, key) ==
    /\ call.op = "idle"
    /\ call' = [NoCall EXCEPT !.op = "meta_value", !.meta = me, !.key = key,
                              !.sv = meta_value(Context("echo", Null, Null, "", me), key)]
    /\ UNCHANGED handlers_

\* Context::has_meta on a Context built with the metadata me
HasMeta(me, key) ==
    /\ call.op = "idle"
    /\ call' = [NoCall EXCEPT !.op = "has_meta", !.meta = me, !.key = key,
                              !.flag = has_meta(Context("echo", Null, Null, "", me), key)]
    /\ UNCHANGED handlers_

\* Router::has
Has(name) ==
    /\ call.op = "idle"
    /\ call' = [NoCall EXCEPT !.op = "has", !.name = name,
                              !.flag = router_has(handlers_, name)]
    /\ UNCHANGED handlers_

\* Router::size
Size ==
    /\ call.op = "idle"
    /\ call' = [NoCall EXCEPT !.op = "size", !.count = router_size(handlers_)]
    /\ UNCHANGED handlers_

\* the caller drops what the call returned and is ready for the next call;
\* a call of handle_one or handle_batch that is under way has not returned yet
Discard ==
    /\ call.op # "idle"
    /\ call.op = "one_call" =>
          call.state \in {"DispatchedNoResponse", "RespondedSuccess", "RespondedError"}
    /\ call.op = "batch_call" => call.state = "Returned"
    /\ call' = NoCall
    /\ UNCHANGED handlers_

Next ==
    \/ \E name \in Names, h \in Handlers : Add(name, h)
    \/ \E name \in Names : Remove(name)
    \/ \E p \in Payloads, tr \in Transports, me \in Metas : Handle(p, tr, me)
    \/ \E p \in SinglePayloads, tr \in Transports, me \in Metas : HandleOne(p, tr, me)
    \/ \E i \in ResponseIds, r \in ResponseResults : ResponseOk(i, r)
    \/ \E i \in ResponseIds, e \in ResponseErrors : ResponseFail(i, e)
    \/ \E root \in ResponseRoots : ResponseParse(root)
    \/ \E root \in RequestRoots : RequestParse(root)
    \/ \E r \in Requests : RequestToJson(r)
    \/ \E root \in ErrorRoots : ErrorParse(root)
    \/ \E e \in Errors : ErrorToJson(e)
    \/ \E r \in Requests, tr \in Transports, me \in Metas : Dispatch(r, tr, me)
    \/ \E p \in SinglePayloads, tr \in Transports, me \in Metas : DispatchRaw(p, tr, me)
    \/ \E m \in ErrorTexts : MethodNotFound(m)
    \/ \E r \in ErrorTexts : InvalidParams(r)
    \/ \E r \in ErrorTexts : ParseError(r)
    \/ \E msg \in ErrorTexts : InternalError(msg)
    \/ \E me \in MetaChoices, key \in MetaKeys : MetaValue(me, key)
    \/ \E me \in MetaChoices, key \in MetaKeys : HasMeta(me, key)
    \/ Discard

\* the operations on the envelopes, the Router and the Dispatcher; the
\* history of the registry is not followed
Spec == Init /\ [][Next /\ UNCHANGED <<hist, thr>>]_vars

\* what add and remove do to the history
Added(name, h) ==
    [hist EXCEPT ![name] = [last |-> h, over |-> hist[name].last]]

\* after a remove, over is the handler the remove took away
Removed(name) ==
    [hist EXCEPT ![name] = [last |-> "none", over |-> hist[name].last]]

\* the requests handled by the Dispatcher while the registry changes
LivePayloads == {ReqEcho1, NotifEcho, ReqAdd2}

RouterNext ==
    \/ \E name \in Names, h \in Handlers : Add(name, h) /\ hist' = Added(name, h)
    \/ \E name \in Names : Remove(name) /\ hist' = Removed(name)
    \/ \E name \in Names : Has(name) /\ UNCHANGED hist
    \/ Size /\ UNCHANGED hist
    \/ \E p \in LivePayloads, tr \in Transports, me \in Metas :
           Handle(p, tr, me) /\ UNCHANGED hist
    \/ \E r \in Requests, tr \in Transports, me \in Metas :
           Dispatch(r, tr, me) /\ UNCHANGED hist
    \/ Discard /\ UNCHANGED hist

\* the Router alone, with the history of add and remove
SpecRouter == Init /\ [][RouterNext /\ UNCHANGED thr]_vars

(***************************************************************************)
(* Dispatcher::handle_one statement by statement.  call.state is the       *)
(* position of the call: Received on entry, Parsed or ParseFailed after    *)
(* RpcRequest::parse, Dispatched after Router::dispatch returned to a call *)
(* with an id, and one of DispatchedNoResponse, RespondedSuccess and       *)
(* RespondedError when the call returns.                                   *)
(***************************************************************************)
\* entry of handle_one
Receive(payload, tr, me) ==
    /\ call.op = "idle"
    /\ call' = [NoCall EXCEPT !.op = "one_call", !.state = "Received",
                              !.payload = payload, !.transport = tr, !.meta = me]
    /\ UNCHANGED handlers_

\* auto parsed = RpcRequest::parse(payload)
ParseStep ==
    /\ call.op = "one_call"
    /\ call.state = "Received"
    /\ LET p == request_parse(call.payload)
       IN  call' = IF p.is_err
                   THEN [call EXCEPT !.state = "ParseFailed",
                                     !.err = [has |-> TRUE, v |-> p.err]]
                   ELSE [call EXCEPT !.state = "Parsed",
                                     !.req = [has |-> TRUE, v |-> p.req]]
    /\ UNCHANGED handlers_

\* return RpcResponse::fail(null, parse error)
FailStep ==
    /\ call.op = "one_call"
    /\ call.state = "ParseFailed"
    /\ call' = [call EXCEPT !.state = "RespondedError",
                            !.resp = [has |-> TRUE,
                                      v |-> response_fail(Null, call.err.v)]]
    /\ UNCHANGED handlers_

\* the notification branch: dispatch, drop the result, return nullopt
NotifyStep ==
    /\ call.op = "one_call"
    /\ call.state = "Parsed"
    /\ is_null(call.req.v.id)
    /\ LET d == router_dispatch(handlers_, call.req.v, call.transport, call.meta)
       IN  call' = [call EXCEPT !.state = "DispatchedNoResponse",
                                !.invoked = call.invoked \o d.inv]
    /\ UNCHANGED handlers_

\* a call with an id that dispatches once more after the first dispatch
DispatchStep_Twice ==
    /\ call.op = "one_call"
    /\ call.state = "Parsed"
    /\ ~is_null(call.req.v.id)
    /\ LET d == router_dispatch(handlers_, call.req.v, call.transport, call.meta)
       IN  call' = [call EXCEPT !.state = "Dispatched", !.result = d.out,
                                !.invoked = call.invoked \o d.inv \o d.inv]
    /\ UNCHANGED handlers_

\* auto out = router_.dispatch(req, transport, meta)
DispatchStep ==
    /\ call.op = "one_call"
    /\ call.state = "Parsed"
    /\ ~is_null(call.req.v.id)
    /\ LET d == router_dispatch(handlers_, call.req.v, call.transport, call.meta)
       IN  call' = [call EXCEPT !.state = "Dispatched", !.result = d.out,
                                !.invoked = call.invoked \o d.inv]
    /\ UNCHANGED handlers_

\* return RpcResponse::fail(req.id, error) or RpcResponse::ok(req.id, value)
RespondStep ==
    /\ call.op = "one_call"
    /\ call.state = "Dispatched"
    /\ call' = IF call.result.is_err
               THEN [call EXCEPT !.state = "RespondedError",
                                 !.resp = [has |-> TRUE,
                                           v |-> response_fail(call.req.v.id,
                                                               call.result.err)]]
               ELSE [call EXCEPT !.state = "RespondedSuccess",
                                 !.resp = [has |-> TRUE,
                                           v |-> response_ok(call.req.v.id,
                                                             call.result.val)]]
    /\ UNCHANGED handlers_

\* the statements of a call of handle_one that is under way
CallSteps ==
    (ParseStep \/ FailStep \/ NotifyStep \/ DispatchStep \/ RespondStep)
        /\ UNCHANGED <<hist, thr>>

CallNext ==
    \/ \E name \in Names, h \in Handlers : Add(name, h) /\ UNCHANGED <<hist, thr>>
    \/ \E name \in Names : Remove(name) /\ UNCHANGED <<hist, thr>>
    \/ \E p \in SinglePayloads, tr \in Transports, me \in Metas :
           Receive(p, tr, me) /\ UNCHANGED <<hist, thr>>
    \/ ParseStep /\ UNCHANGED <<hist, thr>>
    \/ FailStep /\ UNCHANGED <<hist, thr>>
    \/ NotifyStep /\ UNCHANGED <<hist, thr>>
    \/ DispatchStep /\ UNCHANGED <<hist, thr>>
    \/ RespondStep /\ UNCHANGED <<hist, thr>>
    \/ Discard /\ UNCHANGED <<hist, thr>>

\* one call of handle_one at a time, statement by statement; a call that is
\* under way runs on to its return
SpecCall == Init /\ [][CallNext]_vars /\ WF_vars(CallSteps)

(***************************************************************************)
(* Dispatcher::handle_batch item by item.  call.idx is the item the for    *)
(* loop is at, call.out_arr the entries pushed so far; call.state is       *)
(* Looping inside the loop and Returned after the return.                  *)
(***************************************************************************)
StepItems == {ReqEcho1, NotifEcho, ReqAdd2, NoMethod7, Str("bad")}

StepBatches == {Arr(q) : q \in UNION {[1..k -> StepItems] : k \in 0..MaxBatch}}

\* entry of handle_batch: the checks before the loop
BatchBegin(payload, tr, me) ==
    /\ call.op = "idle"
    /\ call' =
         IF ~is_array(payload)
         THEN [NoCall EXCEPT !.op = "batch_call", !.state = "Returned",
                  !.payload = payload, !.transport = tr, !.meta = me,
                  !.out = [has |-> TRUE,
                           v |-> response_to_json(response_fail(Null,
                                     parse_error("batch must be an array")))]]
         ELSE IF Len(payload.el) = 0
         THEN [NoCall EXCEPT !.op = "batch_call", !.state = "Returned",
                  !.payload = payload, !.transport = tr, !.meta = me,
                  !.out = [has |-> TRUE,
                           v |-> response_to_json(response_fail(Null,
                                     invalid_params("batch must not be empty")))]]
         ELSE [NoCall EXCEPT !.op = "batch_call", !.state = "Looping", !.idx = 1,
                  !.payload = payload, !.transport = tr, !.meta = me]
    /\ UNCHANGED handlers_

\* a loop that hands two items out at a time
ItemStep_TwoAtOnce ==
    /\ call.op = "batch_call"
    /\ call.state = "Looping"
    /\ call.idx <= Len(call.payload.el)
    /\ LET last == IF call.idx < Len(call.payload.el) THEN call.idx + 1 ELSE call.idx
           l == batch_loop(handlers_, SubSeq(call.payload.el, call.idx, last), 1,
                           call.out_arr, call.invoked, call.transport, call.meta)
       IN  call' = [call EXCEPT !.idx = last + 1, !.out_arr = l.out_arr,
                                !.invoked = l.inv]
    /\ UNCHANGED handlers_

\* one pass of the for loop: the item at idx, up to its push_back / continue
ItemStep ==
    /\ call.op = "batch_call"
    /\ call.state = "Looping"
    /\ call.idx <= Len(call.payload.el)
    /\ LET l == batch_loop(handlers_, <<call.payload.el[call.idx]>>, 1,
                           call.out_arr, call.invoked, call.transport, call.meta)
       IN  call' = [call EXCEPT !.idx = call.idx + 1, !.out_arr = l.out_arr,
                                !.invoked = l.inv]
    /\ UNCHANGED handlers_

\* after the loop: nullopt when nothing was pushed, else the array
BatchEnd ==
    /\ call.op = "batch_call"
    /\ call.state = "Looping"
    /\ call.idx > Len(call.payload.el)
    /\ call' = [call EXCEPT !.state = "Returned",
                            !.out = IF Len(call.out_arr) = 0
                                    THEN NoneTok
                                    ELSE [has |-> TRUE, v |-> Arr(call.out_arr)]]
    /\ UNCHANGED handlers_

BatchNext ==
    \/ \E name \in Names, h \in Handlers : Add(name, h) /\ UNCHANGED <<hist, thr>>
    \/ \E name \in Names : Remove(name) /\ UNCHANGED <<hist, thr>>
    \/ \E p \in StepBatches, tr \in Transports, me \in Metas :
           BatchBegin(p, tr, me) /\ UNCHANGED <<hist, thr>>
    \/ ItemStep /\ UNCHANGED <<hist, thr>>
    \/ BatchEnd /\ UNCHANGED <<hist, thr>>
    \/ Discard /\ UNCHANGED <<hist, thr>>

\* one call of handle_batch at a time, item by item
SpecBatch == Init /\ [][BatchNext]_vars

(***************************************************************************)
(* Router::dispatch on several threads, statement by statement, with       *)
(* Router::add and Router::remove on yet another thread.  The Router has   *)
(* no lock: a write to handlers_ while a call of dispatch is under way is  *)
(* a data race, after which the call may return the result of any handler, *)
(* METHOD_NOT_FOUND, or end the process.                                   *)
(***************************************************************************)
ConcRequests ==
    {RpcRequest(I64(42), "echo", Obj("a" :> I64(7) @@ "b" :> I64(5))),
     RpcRequest(Null, "math.add", Null),
     RpcRequest(Str("id1"), "missing.method", Null),
     RpcRequest(I64(42), "", Null)}

ConcNames == {"echo", "math.add"}

InFlight(t) == thr[t].pc \in {"check", "find", "call"}

NoCrash == \A t \in Threads : thr[t].pc # "crashed"

ContextOfThread(t) ==
    Context(thr[t].request.method, thr[t].request.params, thr[t].request.id, "", NoMeta)

\* what a call of dispatch may return after a data race on handlers_
RaceOutcomes(t) ==
    {Dispatched(ResultErr(method_not_found(thr[t].request.method)), <<>>)}
        \cup {Dispatched(invoke(h, ContextOfThread(t)),
                         <<Invocation(h, ContextOfThread(t))>>) : h \in Handlers}

\* entry of Router::dispatch on thread t
ThreadBegin(t, req) ==
    /\ NoCrash
    /\ thr[t].pc = "idle"
    /\ thr' = [thr EXCEPT ![t] =
                  [NoThread EXCEPT !.pc = "check", !.request = req,
                                   !.alone = router_dispatch(handlers_, req, "", NoMeta)]]
    /\ UNCHANGED <<handlers_, call, hist>>

\* if (!req.valid()) return invalid_params
ThreadCheck(t) ==
    /\ NoCrash
    /\ thr[t].pc = "check"
    /\ thr' = [thr EXCEPT ![t] =
                  IF ~request_valid(thr[t].request)
                  THEN [thr[t] EXCEPT !.pc = "done",
                           !.result = ResultErr(invalid_params("invalid rpc request"))]
                  ELSE [thr[t] EXCEPT !.pc = "find"]]
    /\ UNCHANGED <<handlers_, call, hist>>

\* handlers_.find(req.method), and the return when it reaches end()
ThreadFind(t) ==
    /\ NoCrash
    /\ thr[t].pc = "find"
    /\ thr' = [thr EXCEPT ![t] =
                  IF thr[t].request.method \notin DOMAIN handlers_
                  THEN [thr[t] EXCEPT !.pc = "done",
                           !.result = ResultErr(method_not_found(thr[t].request.method))]
                  ELSE [thr[t] EXCEPT !.pc = "call",
                           !.it = handlers_[thr[t].request.method]]]
    /\ UNCHANGED <<handlers_, call, hist>>

\* a dispatch that takes the handler out of the registry once it has run
ThreadCall_OneShot(t) ==
    /\ NoCrash
    /\ thr[t].pc = "call"
    /\ thr' = [thr EXCEPT ![t] =
                  [thr[t] EXCEPT !.pc = "done",
                                 !.result = invoke(thr[t].it, ContextOfThread(t)),
                                 !.invoked = <<Invocation(thr[t].it, ContextOfThread(t))>>]]
    /\ handlers_' = router_remove(handlers_, thr[t].request.method)
    /\ UNCHANGED <<call, hist>>

\* Context ctx{...}; return it->second(ctx)
ThreadCall(t) ==
    /\ NoCrash
    /\ thr[t].pc = "call"
    /\ thr' = [thr EXCEPT ![t] =
                  [thr[t] EXCEPT !.pc = "done",
                                 !.result = invoke(thr[t].it, ContextOfThread(t)),
                                 !.invoked = <<Invocation(thr[t].it, ContextOfThread(t))>>]]
    /\ UNCHANGED <<handlers_, call, hist>>

\* find or it->second after a write to handlers_ during the call: undefined
ThreadRace(t) ==
    /\ NoCrash
    /\ thr[t].pc \in {"find", "call"}
    /\ thr[t].raced
    /\ \/ \E o \in RaceOutcomes(t) :
             thr' = [thr EXCEPT ![t] =
                        [thr[t] EXCEPT !.pc = "done", !.result = o.out,
                                       !.invoked = o.inv]]
       \/ thr' = [thr EXCEPT ![t] = [thr[t] EXCEPT !.pc = "crashed"]]
    /\ UNCHANGED <<handlers_, call, hist>>

\* the caller on thread t takes the result
ThreadReturn(t) ==
    /\ NoCrash
    /\ thr[t].pc = "done"
    /\ thr' = [thr EXCEPT ![t] = NoThread]
    /\ UNCHANGED <<handlers_, call, hist>>

\* the calls of dispatch that a write to handlers_ runs into
Raced ==
    [t \in Threads |-> IF InFlight(t) THEN [thr[t] EXCEPT !.raced = TRUE] ELSE thr[t]]

\* Router::add on a thread of its own
ConcAdd(name, h) ==
    /\ NoCrash
    /\ handlers_' = router_add(handlers_, name, h)
    /\ thr' = Raced
    /\ UNCHANGED <<call, hist>>

\* Router::remove on a thread of its own
ConcRemove(name) ==
    /\ NoCrash
    /\ handlers_' = router_remove(handlers_, name)
    /\ thr' = Raced
    /\ UNCHANGED <<call, hist>>

ConcNext ==
    \/ \E t \in Threads, req \in ConcRequests : ThreadBegin(t, req)
    \/ \E t \in Threads : ThreadCheck(t)
    \/ \E t \in Threads : ThreadFind(t)
    \/ \E t \in Threads : ThreadCall(t)
    \/ \E t \in Threads : ThreadRace(t)
    \/ \E t \in Threads : ThreadReturn(t)
    \/ \E name \in ConcNames, h \in Handlers : ConcAdd(name, h)
    \/ \E name \in ConcNames : ConcRemove(name)

\* dispatch on two threads against add and remove on a third, every
\* interleaving of their statements
SpecConc == Init /\ [][ConcNext]_vars

(***************************************************************************)
(* Properties of Dispatcher::handle and Dispatcher::handle_one             *)
(***************************************************************************)
Handled == call.op \in {"handle", "handle_one"}

\* the payload parses as a request
Parses(p) == ~request_parse(p).is_err

\* the payload parses as a request whose id is null
IsNotification(p) == Parses(p) /\ is_null(request_parse(p).req.id)

\* the method a parsed payload names is registered
Registered(p) == request_parse(p).req.method \in DOMAIN handlers_

\* the invocation a parsed payload makes of the handler registered for it
InvocationOf(p) ==
    Invocation(handlers_[request_parse(p).req.method],
               Context(request_parse(p).req.method, request_parse(p).req.params,
                       request_parse(p).req.id, call.transport, call.meta))

\* C1: a payload that parses as a request with a null id gets no response
\* from handle / handle_one, whatever the dispatch yields, and its handler,
\* if one is registered, is invoked exactly once.
C1_NotificationNoResponse ==
    (Handled /\ IsNotification(call.payload)) =>
        /\ ~call.out.has
        /\ ~call.resp.has
        /\ Registered(call.payload) => call.invoked = <<InvocationOf(call.payload)>>
        /\ ~Registered(call.payload) => call.invoked = <<>>

\* a notification whose handler ran and returned an RpcError
C1_Witness ==
    /\ call.op = "handle"
    /\ IsNotification(call.payload)
    /\ Len(call.invoked) = 1
    /\ invoke(call.invoked[1].h, call.invoked[1].ctx).is_err
    /\ ~call.out.has

\* a notification for an unregistered method
C1_WitnessNotFound ==
    /\ call.op = "handle_one"
    /\ IsNotification(call.payload)
    /\ ~Registered(call.payload)

IsBatch == call.op = "handle" /\ is_array(call.payload) /\ Len(call.payload.el) > 0

\* the item contributes an entry to the output of a batch
Produces(item) == ~IsNotification(item)

\* the id of the entry an item contributes
EntryId(item) == IF Parses(item) THEN item.kv["id"] ELSE Null

\* C2: the array a non-empty batch returns holds, in input order, one entry
\* for every item that is not a notification, and nothing else.
C2_BatchOrder ==
    IsBatch =>
        LET sel == SelectSeq(call.payload.el, Produces)
        IN  IF Len(sel) = 0
            THEN ~call.out.has
            ELSE /\ call.out.has
                 /\ is_array(call.out.v)
                 /\ Len(call.out.v.el) = Len(sel)
                 /\ \A j \in 1..Len(sel) :
                        /\ has_key(call.out.v.el[j], "id")
                        /\ call.out.v.el[j].kv["id"] = EntryId(sel[j])

\* the batch [request id 1, notification, request id 2] gave entries 1, 2
C2_Witness ==
    /\ call.op = "handle"
    /\ call.payload = Arr(<<ReqEcho1, NotifEcho, ReqAdd2>>)
    /\ call.out.has
    /\ Len(call.out.v.el) = 2
    /\ call.out.v.el[1].kv["id"] = I64(1)
    /\ call.out.v.el[2].kv["id"] = I64(2)
    /\ Len(call.invoked) = 3

\* what the items of a batch yield: the entries and the invocations
EntriesOf(elems) ==
    batch_loop(handlers_, elems, 1, <<>>, <<>>, call.transport, call.meta)

\* the sequence without its k-th element
Without(q, k) == SubSeq(q, 1, k - 1) \o SubSeq(q, k + 1, Len(q))

IsParseErrorEntry(e) ==
    /\ keys(e) = {"id", "error"}
    /\ is_null(e.kv["id"])
    /\ has_key(e.kv["error"], "code")
    /\ e.kv["error"].kv["code"] = Str("PARSE_ERROR")

\* C3: a batch item that is not an object yields one PARSE_ERROR entry with
\* a null id at its position, and the other items yield the entries and
\* make the invocations they would without it.
C3_MalformedItemIsolated ==
    IsBatch =>
        \A k \in 1..Len(call.payload.el) :
            ~is_object(call.payload.el[k]) =>
                LET pos  == Len(EntriesOf(SubSeq(call.payload.el, 1, k - 1)).out_arr) + 1
                    rest == EntriesOf(Without(call.payload.el, k))
                IN  /\ call.out.has
                    /\ is_array(call.out.v)
                    /\ Len(call.out.v.el) = Len(rest.out_arr) + 1
                    /\ IsParseErrorEntry(call.out.v.el[pos])
                    /\ Without(call.out.v.el, pos) = rest.out_arr
                    /\ call.invoked = rest.inv

\* a string between two requests: three entries, both handlers ran
C3_Witness ==
    /\ call.op = "handle"
    /\ call.payload = Arr(<<ReqEcho1, Str("bad"), ReqAdd2>>)
    /\ call.out.has
    /\ Len(call.out.v.el) = 3
    /\ IsParseErrorEntry(call.out.v.el[2])
    /\ call.out.v.el[3].kv["id"] = I64(2)
    /\ Len(call.invoked) = 2

\* C4: handle on an empty array returns one failure response object, not an
\* array and not nothing, with a null id and INVALID_PARAMS "batch must not
\* be empty", and invokes no handler.
C4_EmptyBatch ==
    (call.op = "handle" /\ call.payload = Arr(<<>>)) =>
        /\ call.out.has
        /\ call.out.v = Obj("id" :> Null
                            @@ "error" :> Obj("code" :> Str("INVALID_PARAMS")
                                  @@ "message" :> Str("Invalid RPC parameters")
                                  @@ "details" :>
                                       Obj("reason" :> Str("batch must not be empty"))))
        /\ call.invoked = <<>>

\* the empty batch was handled with handlers registered
C4_Witness ==
    /\ call.op = "handle"
    /\ call.payload = Arr(<<>>)
    /\ call.out.has
    /\ is_object(call.out.v)
    /\ DOMAIN handlers_ # {}

AllNotifications(elems) == \A k \in 1..Len(elems) : IsNotification(elems[k])

\* C5: a non-empty batch of notifications only returns nothing, never an
\* empty array, and every notification is dispatched: the invocations are
\* those of the items whose method is registered, in order.
C5_AllNotifications ==
    (IsBatch /\ AllNotifications(call.payload.el)) =>
        LET regd == SelectSeq(call.payload.el, Registered)
        IN  /\ ~call.out.has
            /\ Len(call.invoked) = Len(regd)
            /\ \A j \in 1..Len(regd) : call.invoked[j] = InvocationOf(regd[j])

\* two notifications in a batch, both handlers ran, nothing returned
C5_Witness ==
    /\ call.op = "handle"
    /\ call.payload = Arr(<<NotifEcho, NotifEcho>>)
    /\ Len(call.invoked) = 2
    /\ ~call.out.has

\* C6: when RpcRequest::parse fails, handle_one returns a failure response
\* with a null id that carries the RpcError of the parse, whatever id the
\* payload held, and invokes no handler.
C6_ParseFailureNullId ==
    (call.op = "handle_one" /\ ~Parses(call.payload)) =>
        /\ call.resp.has
        /\ call.resp.v.has_error
        /\ is_null(call.resp.v.id)
        /\ is_null(call.resp.v.result)
        /\ call.resp.v.error = request_parse(call.payload).err
        /\ call.resp.v.error.code \in {"PARSE_ERROR", "INVALID_PARAMS"}
        /\ call.invoked = <<>>

\* an object with a usable id and no method was answered with a null id
C6_Witness ==
    /\ call.op = "handle_one"
    /\ has_key(call.payload, "id")
    /\ call.payload.kv["id"] = I64(1)
    /\ ~has_key(call.payload, "method")
    /\ call.resp.has
    /\ is_null(call.resp.v.id)
    /\ call.resp.v.error.code = "INVALID_PARAMS"

\* C7: for a parsed request with a non-null id, handle_one returns a
\* response with the id of the request: ok with the Value the dispatch
\* returned, or fail with the RpcError it returned (the handler's, or
\* METHOD_NOT_FOUND for an unregistered method).
C7_ResponseEchoesId ==
    (call.op = "handle_one" /\ Parses(call.payload) /\ ~IsNotification(call.payload)) =>
        LET d == router_dispatch(handlers_, request_parse(call.payload).req,
                                 call.transport, call.meta)
        IN  /\ call.resp.has
            /\ call.resp.v.id = call.payload.kv["id"]
            /\ ~is_null(call.resp.v.id)
            /\ call.resp.v.has_error = d.out.is_err
            /\ d.out.is_err => /\ call.resp.v.error = d.out.err
                               /\ is_null(call.resp.v.result)
            /\ ~d.out.is_err => /\ call.resp.v.result = d.out.val
                                /\ call.resp.v.error = NoError
            /\ ~Registered(call.payload) =>
                   /\ call.resp.v.has_error
                   /\ call.resp.v.error.code = "METHOD_NOT_FOUND"
                   /\ call.invoked = <<>>
            /\ Registered(call.payload) =>
                   /\ call.invoked = <<InvocationOf(call.payload)>>
                   /\ d.out = invoke(call.invoked[1].h, call.invoked[1].ctx)

\* math.add answered {sum: 12} under the id of the request
C7_WitnessOk ==
    /\ call.op = "handle_one"
    /\ call.resp.has
    /\ ~call.resp.v.has_error
    /\ call.resp.v.id = Str("a")
    /\ call.resp.v.result = Obj("sum" :> I64(12))

\* a handler returned an RpcError and the response carries the request id
C7_WitnessHandlerError ==
    /\ call.op = "handle_one"
    /\ Len(call.invoked) = 1
    /\ call.resp.has
    /\ call.resp.v.has_error
    /\ call.resp.v.id = I64(2)
    /\ call.resp.v.error.code = "INVALID_PARAMS"

(***************************************************************************)
(* Properties of RpcResponse                                               *)
(***************************************************************************)
ResponseBuilt == call.op \in {"ok", "fail", "response_parse"} /\ call.resp.has

\* C8: a response built by ok(), by fail() or returned by parse is either a
\* success or an error, never both and never neither, and its to_json() is
\* an object with the key id and exactly one of the keys result and error.
C8_ResultXorError ==
    ResponseBuilt =>
        LET r == call.resp.v
            j == response_to_json(call.resp.v)
        IN  /\ is_object(j)
            /\ "id" \in keys(j)
            /\ j.kv["id"] = r.id
            /\ ("result" \in keys(j)) # ("error" \in keys(j))
            /\ keys(j) \subseteq {"id", "result", "error"}
            /\ r.has_error <=> "error" \in keys(j)
            /\ r.has_error => is_null(r.result) /\ j.kv["error"] = error_to_json(r.error)
            /\ ~r.has_error => r.error = NoError /\ j.kv["result"] = r.result

\* fail() built an error response
C8_WitnessFail ==
    /\ call.op = "fail"
    /\ call.resp.has
    /\ call.resp.v.has_error
    /\ call.resp.v.error.code = "INTERNAL_ERROR"

\* parse returned a success response
C8_WitnessParsed ==
    /\ call.op = "response_parse"
    /\ call.resp.has
    /\ ~call.resp.v.has_error
    /\ call.resp.v.result = Obj("sum" :> I64(12))

\* C9: RpcResponse::parse fails with INVALID_PARAMS on every object that
\* has both a result and an error key, or neither, whatever the values
\* under the keys and whatever the id.
C9_BothOrNeither ==
    (/\ call.op = "response_parse"
     /\ is_object(call.payload)
     /\ has_key(call.payload, "result") = has_key(call.payload, "error")) =>
        /\ ~call.resp.has
        /\ call.err.has
        /\ call.err.v.code = "INVALID_PARAMS"

\* both keys, with an error value that is not an error object
C9_WitnessBoth ==
    /\ call.op = "response_parse"
    /\ has_key(call.payload, "result")
    /\ has_key(call.payload, "error")
    /\ error_parse(call.payload.kv["error"]).ok_ = FALSE
    /\ call.err.has

\* neither key
C9_WitnessNeither ==
    /\ call.op = "response_parse"
    /\ is_object(call.payload)
    /\ ~has_key(call.payload, "result")
    /\ ~has_key(call.payload, "error")
    /\ call.err.has

\* the RpcResponse::parse input has an error key, no result key, a valid id
ErrorOnly ==
    /\ call.op = "response_parse"
    /\ has_key(call.payload, "error")
    /\ ~has_key(call.payload, "result")
    /\ has_key(call.payload, "id") => id_allowed(call.payload.kv["id"])

\* C10: on an object with an error key and no result key, parse returns the
\* RpcError of RpcError::parse unchanged if that fails, and otherwise an
\* error response with the parsed error and a null result.
C10_ErrorValidated ==
    ErrorOnly =>
        LET pr == error_parse(call.payload.kv["error"])
        IN  /\ ~pr.ok_ => /\ ~call.resp.has
                          /\ call.err.has
                          /\ call.err.v = pr.error_
                          /\ call.err.v.code = "PARSE_ERROR"
            /\ pr.ok_ => /\ ~call.err.has
                         /\ call.resp.has
                         /\ call.resp.v.has_error
                         /\ call.resp.v.error = pr.value_
                         /\ is_null(call.resp.v.result)
                         /\ call.resp.v.id = IF has_key(call.payload, "id")
                                             THEN call.payload.kv["id"] ELSE Null

\* an error value with an empty code made parse fail with PARSE_ERROR
C10_WitnessFail ==
    /\ ErrorOnly
    /\ is_object(call.payload.kv["error"])
    /\ call.err.has
    /\ call.err.v = parse_error("code must not be empty")

\* a well-formed error value was parsed into an error response
C10_WitnessOk ==
    /\ ErrorOnly
    /\ call.resp.has
    /\ call.resp.v.error = invalid_params("bad")
    /\ call.resp.v.id = Str("a")

(***************************************************************************)
(* Properties of RpcRequest                                                *)
(***************************************************************************)
RequestParsed == call.op = "request_parse"

\* the method field of an object is absent, not a string, or empty
BadMethod(root) ==
    \/ ~has_key(root, "method")
    \/ root.kv["method"].t # "string"
    \/ root.kv["method"].s = ""

\* C11: RpcRequest::parse fails with INVALID_PARAMS on every object whose
\* method is absent, not a string or empty; so every request it returns has
\* a non-empty method (valid()).
C11_MethodRequired ==
    RequestParsed =>
        /\ (is_object(call.payload) /\ BadMethod(call.payload)) =>
               /\ ~call.req.has
               /\ call.err.has
               /\ call.err.v.code = "INVALID_PARAMS"
        /\ call.req.has =>
               /\ request_valid(call.req.v)
               /\ call.req.v.method = call.payload.kv["method"].s

\* an object with an empty method and a usable id was rejected
C11_Witness ==
    /\ RequestParsed
    /\ has_key(call.payload, "method")
    /\ call.payload.kv["method"] = Str("")
    /\ has_key(call.payload, "id")
    /\ call.err.has
    /\ call.err.v.code = "INVALID_PARAMS"

\* the id field of an object is a bool, an object or an array
BadId(root) ==
    /\ has_key(root, "id")
    /\ root.kv["id"].t \in {"bool", "object", "array"}

\* C12: RpcRequest::parse fails with INVALID_PARAMS when the id is present
\* and is a bool, an object or an array; an absent id parses to a null id;
\* so the id of every parsed request is null, a string or an int64.
C12_IdKinds ==
    RequestParsed =>
        /\ (is_object(call.payload) /\ BadId(call.payload)) =>
               /\ ~call.req.has
               /\ call.err.has
               /\ call.err.v.code = "INVALID_PARAMS"
        /\ call.req.has =>
               /\ call.req.v.id.t \in {"null", "string", "i64"}
               /\ ~has_key(call.payload, "id") => is_null(call.req.v.id)
               /\ has_key(call.payload, "id") => call.req.v.id = call.payload.kv["id"]

\* a well-formed method with an object as id was rejected for the id
C12_Witness ==
    /\ RequestParsed
    /\ has_key(call.payload, "id")
    /\ is_object(call.payload.kv["id"])
    /\ ~BadMethod(call.payload)
    /\ call.err.has
    /\ call.err.v = invalid_params("id must be string, int, or null")

\* an absent id parsed to a null id
C12_WitnessAbsent ==
    /\ RequestParsed
    /\ ~has_key(call.payload, "id")
    /\ call.req.has
    /\ is_null(call.req.v.id)

\* C13: RpcRequest::parse fails with PARSE_ERROR if and only if the root is
\* not an object; every other failure has the code INVALID_PARAMS.
C13_ParseErrorIffNotObject ==
    RequestParsed =>
        /\ ~is_object(call.payload) => call.err.has
        /\ call.err.has =>
               /\ call.err.v.code \in {"PARSE_ERROR", "INVALID_PARAMS"}
               /\ call.err.v.code = "PARSE_ERROR" <=> ~is_object(call.payload)
        /\ call.err.has # call.req.has

\* an array root failed with PARSE_ERROR
C13_Witness ==
    /\ RequestParsed
    /\ is_array(call.payload)
    /\ call.err.has
    /\ call.err.v.code = "PARSE_ERROR"

\* an object without a method failed with INVALID_PARAMS
C13_WitnessObject ==
    /\ RequestParsed
    /\ is_object(call.payload)
    /\ ~has_key(call.payload, "method")
    /\ call.err.has
    /\ call.err.v.code = "INVALID_PARAMS"

\* the field of an object is present and not null
NonNullField(root, k) == has_key(root, k) /\ ~is_null(root.kv[k])

\* C14: RpcRequest::to_json yields an object with method always, with id
\* exactly when the id is not null and with params exactly when the params
\* are not null; a request parsed from an object with an explicit null id
\* or null params serializes without that field.
C14_RequestToJson ==
    /\ call.op = "request_to_json" =>
           LET r == call.request
               j == call.out.v
           IN  /\ call.out.has
               /\ is_object(j)
               /\ keys(j) \subseteq {"method", "id", "params"}
               /\ "method" \in keys(j)
               /\ j.kv["method"] = Str(r.method)
               /\ "id" \in keys(j) <=> ~is_null(r.id)
               /\ "params" \in keys(j) <=> ~is_null(r.params)
               /\ "id" \in keys(j) => j.kv["id"] = r.id
               /\ "params" \in keys(j) => j.kv["params"] = r.params
    /\ (RequestParsed /\ call.req.has) =>
           LET j == request_to_json(call.req.v)
           IN  /\ "method" \in keys(j)
               /\ "id" \in keys(j) <=> NonNullField(call.payload, "id")
               /\ "params" \in keys(j) <=> NonNullField(call.payload, "params")

\* a request with a null id and params serialized to method and params
C14_Witness ==
    /\ call.op = "request_to_json"
    /\ is_null(call.request.id)
    /\ ~is_null(call.request.params)
    /\ keys(call.out.v) = {"method", "params"}

\* a request parsed from an explicit null id serializes without an id
C14_WitnessParsedNull ==
    /\ RequestParsed
    /\ call.req.has
    /\ has_key(call.payload, "id")
    /\ is_null(call.payload.kv["id"])
    /\ "id" \notin keys(request_to_json(call.req.v))

\* C15: on every object with a non-empty string method and an id that is
\* absent, null, a string or an int64, whatever the params, parse succeeds
\* and to_json of the parsed request has the method of the input, and its
\* id and params whenever they were not null in the input.
C15_RequestRoundTrip ==
    (/\ RequestParsed
     /\ is_object(call.payload)
     /\ ~BadMethod(call.payload)
     /\ ~BadId(call.payload)) =>
        /\ call.req.has
        /\ ~call.err.has
        /\ LET j == request_to_json(call.req.v)
           IN  /\ has_key(j, "method")
               /\ j.kv["method"] = call.payload.kv["method"]
               /\ NonNullField(call.payload, "id") =>
                      has_key(j, "id") /\ j.kv["id"] = call.payload.kv["id"]
               /\ NonNullField(call.payload, "params") =>
                      has_key(j, "params") /\ j.kv["params"] = call.payload.kv["params"]

\* a request with a string id and an array as params came back whole
C15_Witness ==
    /\ RequestParsed
    /\ call.req.has
    /\ NonNullField(call.payload, "id")
    /\ is_string(call.payload.kv["id"])
    /\ NonNullField(call.payload, "params")
    /\ is_array(call.payload.kv["params"])
    /\ request_to_json(call.req.v) = call.payload

(***************************************************************************)
(* Properties of RpcError                                                  *)
(***************************************************************************)
\* the root is not an object, or code or message is missing or not a
\* string, or the code is empty
BadError(root) ==
    \/ root.t # "object"
    \/ "code" \notin DOMAIN root.kv
    \/ "message" \notin DOMAIN root.kv
    \/ root.kv["code"].t # "string"
    \/ root.kv["message"].t # "string"
    \/ root.kv["code"].s = ""

\* C16: RpcError::parse fails, with a PARSE_ERROR, exactly when the root is
\* not an object, code or message is missing or not a string, or the code
\* is empty; otherwise it returns the code and message of the root, with
\* the details field if there is one and null details if not.
C16_ErrorParse ==
    call.op = "error_parse" =>
        /\ call.epr.ok_ <=> ~BadError(call.payload)
        /\ ~call.epr.ok_ => call.epr.error_.code = "PARSE_ERROR"
        /\ call.epr.ok_ =>
               /\ call.epr.value_.code = call.payload.kv["code"].s
               /\ call.epr.value_.message = call.payload.kv["message"].s
               /\ call.epr.value_.details =
                      IF "details" \in DOMAIN call.payload.kv
                      THEN call.payload.kv["details"] ELSE Null
               /\ error_valid(call.epr.value_)

\* an error with an empty message and a string as details was accepted
C16_Witness ==
    /\ call.op = "error_parse"
    /\ call.epr.ok_
    /\ call.epr.value_.message = ""
    /\ call.epr.value_.details = Str("d")

\* an error with an empty code was rejected
C16_WitnessEmptyCode ==
    /\ call.op = "error_parse"
    /\ ~call.epr.ok_
    /\ has_key(call.payload, "code")
    /\ call.payload.kv["code"] = Str("")
    /\ has_key(call.payload, "message")
    /\ call.epr.error_ = parse_error("code must not be empty")

\* C17: RpcError::to_json yields an object with code and message always and
\* with details exactly when the details are not null.
C17_ErrorToJson ==
    call.op = "error_to_json" =>
        LET e == call.error
            j == call.out.v
        IN  /\ call.out.has
            /\ is_object(j)
            /\ keys(j) = {"code", "message"}
                         \cup (IF is_null(e.details) THEN {} ELSE {"details"})
            /\ j.kv["code"] = Str(e.code)
            /\ j.kv["message"] = Str(e.message)
            /\ "details" \in keys(j) => j.kv["details"] = e.details

\* an error without details serialized to code and message only
C17_Witness ==
    /\ call.op = "error_to_json"
    /\ is_null(call.error.details)
    /\ call.error.code = "E"
    /\ keys(call.out.v) = {"code", "message"}

\* C18: for every RpcError with a non-empty code, RpcError::parse of its
\* to_json succeeds and returns the same code, message and details.
C18_ErrorRoundTrip ==
    (call.op = "error_to_json" /\ error_valid(call.error)) =>
        /\ error_parse(call.out.v).ok_
        /\ error_parse(call.out.v).value_ = call.error

\* the error of the round trip test, with its details
C18_Witness ==
    /\ call.op = "error_to_json"
    /\ call.error = RpcError("PARSE_ERROR", "Failed to parse RPC payload",
                             Obj("reason" :> Str("invalid json")))
    /\ error_parse(call.out.v).ok_

\* null details stay null through the round trip
C18_WitnessNoDetails ==
    /\ call.op = "error_to_json"
    /\ error_valid(call.error)
    /\ is_null(call.error.details)
    /\ is_null(error_parse(call.out.v).value_.details)

(***************************************************************************)
(* Properties of the Router, under SpecRouter                              *)
(***************************************************************************)
\* a dispatch of a valid request for a name that add and remove were used on
DispatchedNamed ==
    /\ call.op = "dispatch"
    /\ request_valid(call.request)
    /\ call.request.method \in Names

\* the Context Router::dispatch builds for the request of the call
ContextOfCall ==
    Context(call.request.method, call.request.params, call.request.id,
            call.transport, call.meta)

\* C19: adding a handler under a registered name replaces the handler: the
\* registry holds the new one right after the add, and every dispatch of a
\* name invokes the handler of the most recent add on it exactly once, and
\* no other, as long as the name is not removed.
C19_ReRegisterReplaces ==
    /\ call.op = "add" =>
           /\ router_has(handlers_, call.name)
           /\ handlers_[call.name] = call.h
    /\ (DispatchedNamed /\ hist[call.request.method].last # "none") =>
           /\ call.invoked = <<Invocation(hist[call.request.method].last, ContextOfCall)>>
           /\ call.result = invoke(hist[call.request.method].last, ContextOfCall)

\* echo was registered with h_echo, then with h_add, and a dispatch of echo
\* ran h_add only
C19_Witness ==
    /\ DispatchedNamed
    /\ call.request.method = "echo"
    /\ hist["echo"].over = "h_echo"
    /\ hist["echo"].last = "h_add"
    /\ Len(call.invoked) = 1
    /\ call.invoked[1].h = "h_add"

\* C20: Router::remove(name) returns true if and only if a handler was
\* registered under the name right before the call; after it has(name) is
\* false and every other name is registered as before, with its handler.
C20_Remove ==
    [][call'.op = "remove" =>
          /\ call'.flag <=> hist[call'.name].last # "none"
          /\ call'.flag <=> router_has(handlers_, call'.name)
          /\ ~router_has(handlers_', call'.name)
          /\ \A o \in Names \ {call'.name} :
                 /\ router_has(handlers_', o) <=> router_has(handlers_, o)
                 /\ router_has(handlers_, o) => handlers_'[o] = handlers_[o]
          /\ router_size(handlers_') =
                 router_size(handlers_) - (IF call'.flag THEN 1 ELSE 0)]_vars

\* a registered name was removed while another name stays registered
C20_Witness ==
    /\ call.op = "remove"
    /\ call.flag
    /\ ~router_has(handlers_, call.name)
    /\ DOMAIN handlers_ # {}

\* the remove of a name that was not registered returned false
C20_WitnessFalse ==
    /\ call.op = "remove"
    /\ ~call.flag
    /\ DOMAIN handlers_ # {}

(***************************************************************************)
(* Properties of Router::dispatch                                          *)
(***************************************************************************)
DispatchCalled == call.op = "dispatch"

\* C21: Router::dispatch of a method that is not registered yields an
\* RpcError with the code METHOD_NOT_FOUND whose details are an object with
\* method equal to the name asked for, and invokes no handler.
C21_MethodNotFound ==
    (/\ DispatchCalled
     /\ call.request.method # ""
     /\ ~router_has(handlers_, call.request.method)) =>
        /\ call.result.is_err
        /\ call.result.err.code = "METHOD_NOT_FOUND"
        /\ call.result.err.message = "RPC method not found"
        /\ call.result.err.details = Obj("method" :> Str(call.request.method))
        /\ call.invoked = <<>>

\* missing.method was dispatched while other methods were registered
C21_Witness ==
    /\ DispatchCalled
    /\ call.request.method = "missing.method"
    /\ call.request.id = Str("id1")
    /\ DOMAIN handlers_ # {}
    /\ call.result.is_err
    /\ call.result.err.code = "METHOD_NOT_FOUND"

\* C22: Router::dispatch of a request with an empty method returns
\* INVALID_PARAMS "invalid rpc request" and invokes no handler, also when a
\* handler is registered under the empty name: the check of the request
\* comes before the lookup.
C22_InvalidRequest ==
    (DispatchCalled /\ call.request.method = "") =>
        /\ call.result.is_err
        /\ call.result.err = invalid_params("invalid rpc request")
        /\ call.result.err.code = "INVALID_PARAMS"
        /\ call.invoked = <<>>

\* an empty method was dispatched with a handler registered under ""
C22_Witness ==
    /\ DispatchCalled
    /\ call.request.method = ""
    /\ router_has(handlers_, "")
    /\ call.result.is_err
    /\ call.invoked = <<>>

\* C23: for a valid request whose method is registered, Router::dispatch
\* invokes the handler of that method exactly once, with the method, params
\* and id of the request, and returns what the handler returned, Value or
\* RpcError, unchanged; h_add on {a: 7, b: 5} gives {sum: 12}.
C23_DispatchReturnsHandlerResult ==
    (/\ DispatchCalled
     /\ call.request.method # ""
     /\ router_has(handlers_, call.request.method)) =>
        LET h == handlers_[call.request.method]
        IN  /\ call.invoked = <<Invocation(h, ContextOfCall)>>
            /\ call.result = invoke(h, ContextOfCall)
            /\ h = "h_echo" => call.result = ResultOk(call.request.params)
            /\ (h = "h_add" /\ call.request.params = Obj("a" :> I64(7) @@ "b" :> I64(5)))
                   => call.result = ResultOk(Obj("sum" :> I64(12)))
            /\ (h = "h_add" /\ ~is_object(call.request.params))
                   => call.result = ResultErr(invalid_params("params must be an object"))

\* math.add with {a: 7, b: 5} under id 42 returned {sum: 12}
C23_Witness ==
    /\ DispatchCalled
    /\ call.request = RpcRequest(I64(42), "math.add", Obj("a" :> I64(7) @@ "b" :> I64(5)))
    /\ call.result = ResultOk(Obj("sum" :> I64(12)))
    /\ Len(call.invoked) = 1

\* a handler returned an RpcError and dispatch returned it as it is
C23_WitnessError ==
    /\ DispatchCalled
    /\ Len(call.invoked) = 1
    /\ call.result.is_err
    /\ call.result.err.code = "INVALID_PARAMS"

\* C24: Router::dispatch of a raw value is RpcRequest::parse followed by
\* Router::dispatch: a parse failure is returned unchanged with no handler
\* invoked, and otherwise the call returns what dispatch of the parsed
\* request returns for the same transport and metadata.
C24_RawIsParseThenDispatch ==
    call.op = "dispatch_raw" =>
        LET p == request_parse(call.payload)
            d == router_dispatch(handlers_, p.req, call.transport, call.meta)
        IN  IF p.is_err
            THEN /\ call.result = ResultErr(p.err)
                 /\ call.invoked = <<>>
            ELSE /\ call.result = d.out
                 /\ call.invoked = d.inv

\* the raw request {id: 1, method: "echo", params: {x: 10}} reached h_echo
C24_Witness ==
    /\ call.op = "dispatch_raw"
    /\ call.payload = ReqEcho1
    /\ call.transport = "http"
    /\ call.invoked = <<Invocation("h_echo",
           Context("echo", Obj("x" :> I64(10)), I64(1), "http", call.meta))>>
    /\ call.result = ResultOk(Obj("x" :> I64(10)))

\* a raw value that does not parse came back as the parse failure
C24_WitnessParseFailure ==
    /\ call.op = "dispatch_raw"
    /\ request_parse(call.payload).is_err
    /\ DOMAIN handlers_ # {}
    /\ call.result.is_err
    /\ call.result.err.code = "PARSE_ERROR"

(***************************************************************************)
(* Properties of Dispatcher::handle                                        *)
(***************************************************************************)
HandleCalled == call.op = "handle"

\* C25: Dispatcher::handle routes by the shape of the payload: an array goes
\* to handle_batch; anything else goes to handle_one, whose response is
\* returned as JSON, or nothing when it returned none; a payload that is
\* neither an array nor an object gives one PARSE_ERROR response, id null.
C25_HandleRoutesByShape ==
    HandleCalled =>
        LET b == handle_batch(handlers_, call.payload, call.transport, call.meta)
            r == handle_one(handlers_, call.payload, call.transport, call.meta)
        IN  /\ is_array(call.payload) =>
                /\ call.out = [has |-> b.has, v |-> b.tok]
                /\ call.invoked = b.inv
            /\ ~is_array(call.payload) =>
                /\ call.out.has = r.has
                /\ r.has => call.out.v = response_to_json(r.resp)
                /\ call.invoked = r.inv
            /\ (~is_array(call.payload) /\ ~is_object(call.payload)) =>
                /\ call.out.has
                /\ call.out.v = Obj("id" :> Null
                                 @@ "error" :> Obj("code" :> Str("PARSE_ERROR")
                                     @@ "message" :> Str("Failed to parse RPC payload")
                                     @@ "details" :> Obj("reason" :>
                                            Str("request must be an object"))))
                /\ call.invoked = <<>>

\* an array payload was answered by an array of responses
C25_Witness ==
    /\ HandleCalled
    /\ is_array(call.payload)
    /\ call.out.has
    /\ is_array(call.out.v)
    /\ Len(call.invoked) >= 1

\* a top-level scalar was answered by one PARSE_ERROR response
C25_WitnessScalar ==
    /\ HandleCalled
    /\ call.payload = I64(3)
    /\ call.out.has
    /\ call.out.v.kv["error"].kv["code"] = Str("PARSE_ERROR")

\* a single notification was handled and nothing came back
C25_WitnessNothing ==
    /\ HandleCalled
    /\ is_object(call.payload)
    /\ ~call.out.has
    /\ Len(call.invoked) = 1

\* the invocations agree in everything but the transport label
SameButTransport(inv1, inv2) ==
    /\ Len(inv1) = Len(inv2)
    /\ \A j \in 1..Len(inv1) :
          /\ inv1[j].h = inv2[j].h
          /\ [inv1[j].ctx EXCEPT !.transport = ""] = [inv2[j].ctx EXCEPT !.transport = ""]

\* C26: the transport label does not affect dispatch: for the same registry,
\* payload and metadata, a call under any other label invokes the same
\* handlers in the same order with the same method, params and id, and
\* returns the same result or responses; the label only reaches the Context.
C26_TransportIrrelevant ==
    \A tr2 \in Transports :
        /\ HandleCalled =>
              LET r2 == handle(handlers_, call.payload, tr2, call.meta)
              IN  /\ call.out = [has |-> r2.has, v |-> r2.tok]
                  /\ SameButTransport(call.invoked, r2.inv)
        /\ call.op = "handle_one" =>
              LET r2 == handle_one(handlers_, call.payload, tr2, call.meta)
              IN  /\ call.resp = [has |-> r2.has, v |-> r2.resp]
                  /\ SameButTransport(call.invoked, r2.inv)
        /\ DispatchCalled =>
              LET d2 == router_dispatch(handlers_, call.request, tr2, call.meta)
              IN  /\ call.result = d2.out
                  /\ SameButTransport(call.invoked, d2.inv)
        /\ call.op \in {"handle", "handle_one", "dispatch"} =>
              \A j \in 1..Len(call.invoked) :
                  call.invoked[j].ctx.transport = call.transport

\* a batch handled under the label "http" invoked two handlers
C26_Witness ==
    /\ HandleCalled
    /\ call.transport = "http"
    /\ is_array(call.payload)
    /\ Len(call.invoked) >= 2
    /\ call.out.has

\* a request dispatched under the label "http" got the result of its handler
C26_WitnessDispatch ==
    /\ DispatchCalled
    /\ call.transport = "http"
    /\ Len(call.invoked) = 1
    /\ ~call.result.is_err

(***************************************************************************)
(* Properties of the constructors of RpcError and of Context               *)
(***************************************************************************)
\* C28: the four constructors give fixed codes: method_not_found(m) has
\* METHOD_NOT_FOUND and details {method: m}; invalid_params(r) has
\* INVALID_PARAMS and details {reason: r}; parse_error(r) has PARSE_ERROR and
\* details {reason: r}; internal_error(msg) has INTERNAL_ERROR, the message
\* msg and null details; all four are valid().
C28_CanonicalErrors ==
    /\ call.op = "method_not_found" =>
          /\ call.error.code = "METHOD_NOT_FOUND"
          /\ call.error.details = Obj("method" :> Str(call.name))
          /\ error_valid(call.error)
    /\ call.op = "invalid_params" =>
          /\ call.error.code = "INVALID_PARAMS"
          /\ call.error.details = Obj("reason" :> Str(call.name))
          /\ error_valid(call.error)
    /\ call.op = "parse_error" =>
          /\ call.error.code = "PARSE_ERROR"
          /\ call.error.details = Obj("reason" :> Str(call.name))
          /\ error_valid(call.error)
    /\ call.op = "internal_error" =>
          /\ call.error.code = "INTERNAL_ERROR"
          /\ call.error.message = call.name
          /\ call.error.details = Null
          /\ error_valid(call.error)

\* internal_error("boom") was built
C28_Witness ==
    /\ call.op = "internal_error"
    /\ call.name = "boom"
    /\ call.error.message = "boom"

\* method_not_found("missing.method") was built
C28_WitnessNotFound ==
    /\ call.op = "method_not_found"
    /\ call.name = "missing.method"
    /\ call.error.code = "METHOD_NOT_FOUND"

\* invalid_params and parse_error were built from an empty reason
C28_WitnessInvalidParams ==
    /\ call.op = "invalid_params"
    /\ call.name = ""
    /\ call.error.code = "INVALID_PARAMS"

C28_WitnessParseError ==
    /\ call.op = "parse_error"
    /\ call.name = "bad type"
    /\ call.error.code = "PARSE_ERROR"

\* the key of the lookup is in the metadata map of the Context
MetaKeyStored == call.meta.present /\ call.key \in DOMAIN call.meta.map

\* C29: the metadata lookups of Context never fail: with no map, or with a
\* map that lacks the key, meta_value gives the empty string and has_meta
\* gives false; with the key present meta_value gives the stored value and
\* has_meta gives true.
C29_MetaLookup ==
    /\ call.op = "meta_value" =>
          /\ ~MetaKeyStored => call.sv = ""
          /\ MetaKeyStored => call.sv = call.meta.map[call.key]
    /\ call.op = "has_meta" => (call.flag <=> MetaKeyStored)

\* has_meta was asked for a key that a supplied map lacks
C29_Witness ==
    /\ call.op = "has_meta"
    /\ call.meta.present
    /\ call.key \notin DOMAIN call.meta.map
    /\ ~call.flag

\* meta_value found the stored value
C29_WitnessValue ==
    /\ call.op = "meta_value"
    /\ call.key = "trace"
    /\ call.sv = "t1"

\* meta_value was asked on a Context with no map
C29_WitnessNoMap ==
    /\ call.op = "meta_value"
    /\ ~call.meta.present
    /\ call.key = "peer"
    /\ call.sv = ""

\* has_meta is true for a key stored with an empty value
C29_WitnessEmptyValue ==
    /\ call.op = "has_meta"
    /\ call.meta.present
    /\ call.key = "peer"
    /\ "peer" \in DOMAIN call.meta.map
    /\ call.meta.map["peer"] = ""
    /\ call.flag

(***************************************************************************)
(* The states of one call of handle_one                                    *)
(***************************************************************************)
InCall == call.op = "one_call"

TerminalStates == {"DispatchedNoResponse", "RespondedSuccess", "RespondedError"}

Terminal == InCall /\ call.state \in TerminalStates

\* the moves the state of a call may make
CallEdges ==
    {<<"", "Received">>, <<"Received", "Parsed">>, <<"Received", "ParseFailed">>,
     <<"ParseFailed", "RespondedError">>, <<"Parsed", "DispatchedNoResponse">>,
     <<"Parsed", "Dispatched">>, <<"Dispatched", "RespondedSuccess">>,
     <<"Dispatched", "RespondedError">>, <<"DispatchedNoResponse", "">>,
     <<"RespondedSuccess", "">>, <<"RespondedError", "">>}

\* what holds in each state of a call
CallStateInv ==
    InCall =>
        /\ Len(call.invoked) <= 1
        /\ call.state \in {"Received", "ParseFailed"} =>
              call.invoked = <<>> /\ ~call.resp.has
        /\ call.err.has => call.invoked = <<>> /\ ~call.req.has
        /\ call.state = "Parsed" => call.req.has /\ call.invoked = <<>>
        /\ call.state = "DispatchedNoResponse" =>
              call.req.has /\ is_null(call.req.v.id) /\ ~call.resp.has
        /\ call.state = "RespondedSuccess" =>
              /\ call.req.has /\ ~is_null(call.req.v.id)
              /\ call.resp.has /\ ~call.resp.v.has_error
              /\ call.resp.v.id = call.req.v.id
        /\ call.state = "RespondedError" =>
              /\ call.resp.has /\ call.resp.v.has_error
              /\ call.req.has => ~is_null(call.req.v.id)
        /\ call.state \in TerminalStates =>
              LET r == handle_one(handlers_, call.payload, call.transport, call.meta)
              IN  /\ call.resp = [has |-> r.has, v |-> r.resp]
                  /\ call.invoked = r.inv

\* the moves of a call: along the edges only; a handler is invoked only on
\* the move out of Parsed; the move out of Dispatched is to a terminal state
CallMoves ==
    /\ call'.state # call.state => <<call.state, call'.state>> \in CallEdges
    /\ (InCall /\ call'.op = "one_call" /\ call'.invoked # call.invoked) =>
          call.state = "Parsed"
    /\ (InCall /\ call.state = "Dispatched" /\ call' # call) =>
          call'.state \in {"RespondedSuccess", "RespondedError"}
              /\ call'.invoked = call.invoked

\* C30: a call of handle_one moves Received -> Parsed or ParseFailed and ends
\* in exactly one of DispatchedNoResponse (parsed, id null), RespondedSuccess
\* and RespondedError; a handler is invoked at most once, only on leaving
\* Parsed and never after ParseFailed; the first move after the dispatch of
\* a call with an id is the return of the response.
C30_CallStateMachine ==
    /\ []CallStateInv
    /\ [][CallMoves]_vars
    /\ (InCall /\ call.state = "Received") ~> Terminal

\* a call with an id ended in RespondedSuccess after one invocation
C30_Witness ==
    /\ Terminal
    /\ call.state = "RespondedSuccess"
    /\ Len(call.invoked) = 1

\* a notification ended in DispatchedNoResponse after one invocation
C30_WitnessNotification ==
    /\ Terminal
    /\ call.state = "DispatchedNoResponse"
    /\ Len(call.invoked) = 1

\* a payload that does not parse ended in RespondedError
C30_WitnessParseFailed ==
    /\ Terminal
    /\ call.state = "RespondedError"
    /\ call.err.has
    /\ DOMAIN handlers_ # {}

\* a handler returned an RpcError and the call ended in RespondedError
C30_WitnessHandlerError ==
    /\ Terminal
    /\ call.state = "RespondedError"
    /\ call.req.has
    /\ Len(call.invoked) = 1

(***************************************************************************)
(* Router::dispatch on several threads                                     *)
(***************************************************************************)
\* a call that no add or remove ran into ends as it ends alone, and until
\* then the registry is the one it started with; the process ends only
\* after a race
ConcInv ==
    \A t \in Threads :
        /\ (thr[t].pc = "done" /\ ~thr[t].raced) =>
              /\ thr[t].result = thr[t].alone.out
              /\ thr[t].invoked = thr[t].alone.inv
        /\ (InFlight(t) /\ ~thr[t].raced) =>
              thr[t].alone = router_dispatch(handlers_, thr[t].request, "", NoMeta)
        /\ thr[t].pc = "crashed" => thr[t].raced

\* a statement of dispatch leaves the registry as it is
ConcFrame ==
    (\E t \in Threads : thr'[t].pc # thr[t].pc) => handlers_' = handlers_

\* C27: calls of Router::dispatch that run at the same time, with no add or
\* remove running into them, each return what they return alone against the
\* same registry, under every interleaving, and leave the registry
\* unchanged; a call differs from that only after an add or remove ran
\* while it was under way.
C27_ConcurrentDispatchSafe ==
    /\ []ConcInv
    /\ [][ConcFrame]_vars

\* two calls ran at the same time on a registry nobody wrote to: one has
\* its result while the other is about to invoke its handler
C27_Witness ==
    /\ thr[1].pc = "done"
    /\ ~thr[1].raced
    /\ Len(thr[1].invoked) = 1
    /\ thr[1].result = ResultOk(Obj("a" :> I64(7) @@ "b" :> I64(5)))
    /\ thr[2].pc = "call"
    /\ ~thr[2].raced

\* a call that add or remove ran into returned something else than alone
C27_WitnessRace ==
    /\ thr[1].pc = "done"
    /\ thr[1].raced
    /\ thr[1].result # thr[1].alone.out

\* a call that add or remove ran into ended the process
C27_WitnessCrash == thr[2].pc = "crashed" /\ thr[2].raced

(***************************************************************************)
(* The loop of handle_batch                                                *)
(***************************************************************************)
InBatch == call.op = "batch_call"

\* the item is an object that parses and names a registered method
Invokes(item) == Parses(item) /\ Registered(item)

\* the invocations the items make, one for each that parses and names a
\* registered method, in the order of the items
ExpectedInvocations(elems) ==
    LET sel == SelectSeq(elems, Invokes)
    IN  [j \in 1..Len(sel) |-> InvocationOf(sel[j])]

\* inside the loop the invocations and the entries are those of the items
\* before idx; after the return they are those of the whole batch
BatchInv ==
    InBatch =>
        /\ call.state = "Looping" =>
              /\ call.idx \in 1..(Len(call.payload.el) + 1)
              /\ call.invoked =
                     ExpectedInvocations(SubSeq(call.payload.el, 1, call.idx - 1))
              /\ call.out_arr = EntriesOf(SubSeq(call.payload.el, 1, call.idx - 1)).out_arr
              /\ ~call.out.has
        /\ (call.state = "Returned" /\ Len(call.payload.el) > 0) =>
              /\ call.invoked = ExpectedInvocations(call.payload.el)
              /\ Len(call.invoked) =
                     Cardinality({k \in 1..Len(call.payload.el) :
                                     Invokes(call.payload.el[k])})
              /\ LET b == handle_batch(handlers_, call.payload, call.transport, call.meta)
                 IN  call.out = [has |-> b.has, v |-> b.tok] /\ call.invoked = b.inv

\* a move of the loop takes the item at idx and no other: it adds the one
\* invocation of that item, if it makes one, and goes on to idx + 1; the
\* return comes after the last item and invokes nothing
BatchMoves ==
    (InBatch /\ call'.op = "batch_call" /\ call' # call) =>
        IF call'.state = "Looping"
        THEN /\ call'.idx = call.idx + 1
             /\ call'.invoked =
                    call.invoked \o ExpectedInvocations(<<call.payload.el[call.idx]>>)
             /\ Len(call'.invoked) <= Len(call.invoked) + 1
        ELSE /\ call.idx = Len(call.payload.el) + 1
             /\ call'.invoked = call.invoked

\* C31: the items of a batch are processed one at a time in input order: the
\* handler of item i has returned before item i+1 is touched, so the
\* invocations are those of the items that parse and name a registered
\* method (notifications too), in order, once each; items that are not
\* objects, do not parse or name no registered method invoke nothing.
C31_BatchSequential ==
    /\ []BatchInv
    /\ [][BatchMoves]_vars

\* the loop stands between the second and the third item of a batch of
\* three, with the first two handlers run
C31_Witness ==
    /\ InBatch
    /\ call.state = "Looping"
    /\ call.payload = Arr(<<ReqEcho1, NotifEcho, ReqAdd2>>)
    /\ call.idx = 3
    /\ Len(call.invoked) = 2
    /\ Invokes(ReqAdd2)

\* a batch with an unparsable item and an unregistered method returned with
\* one invocation
C31_WitnessSkips ==
    /\ InBatch
    /\ call.state = "Returned"
    /\ call.payload = Arr(<<NoMethod7, ReqAdd2, ReqEcho1>>)
    /\ ~Registered(ReqAdd2)
    /\ Len(call.invoked) = 1
    /\ call.invoked[1].ctx.method = "echo"

\* a batch with a non-object between two requests returned with two
\* invocations
C31_WitnessNonObject ==
    /\ InBatch
    /\ call.state = "Returned"
    /\ call.payload = Arr(<<ReqEcho1, Str("bad"), ReqAdd2>>)
    /\ Len(call.invoked) = 2

(***************************************************************************)
(* What Dispatcher::handle returns                                         *)
(***************************************************************************)
\* the object has no id a response could carry
NoUsableId(p) == is_object(p) /\ (~has_key(p, "id") \/ is_null(p.kv["id"]))

\* the entry of an item that does not parse
ParseFailureEntry(item) ==
    response_to_json(response_fail(Null, request_parse(item).err))

\* C32: an object that fails RpcRequest::parse is never taken for a
\* notification, also when it has no id or a null id: handle_one answers
\* with an error response whose id is null and invokes nothing, and in a
\* batch the object adds one error entry; a response is held back only for
\* a request that parses and has a null id.
C32_UnparsableNotNotification ==
    /\ (call.op = "handle_one" /\ is_object(call.payload) /\ ~Parses(call.payload)) =>
          /\ call.resp.has
          /\ call.resp.v.has_error
          /\ is_null(call.resp.v.id)
          /\ call.invoked = <<>>
    /\ call.op = "handle_one" => (~call.resp.has <=> IsNotification(call.payload))
    /\ (HandleCalled /\ ~is_array(call.payload)) =>
          (~call.out.has <=> IsNotification(call.payload))
    /\ IsBatch =>
          /\ \A k \in 1..Len(call.payload.el) :
                (is_object(call.payload.el[k]) /\ ~Parses(call.payload.el[k])) =>
                    LET pos == Len(EntriesOf(SubSeq(call.payload.el, 1, k - 1)).out_arr) + 1
                    IN  /\ call.out.has
                        /\ pos <= Len(call.out.v.el)
                        /\ call.out.v.el[pos] = ParseFailureEntry(call.payload.el[k])
                        /\ is_null(call.out.v.el[pos].kv["id"])
                        /\ has_key(call.out.v.el[pos], "error")
          /\ (IF call.out.has THEN Len(call.out.v.el) ELSE 0) =
                 Cardinality({k \in 1..Len(call.payload.el) :
                                 ~IsNotification(call.payload.el[k])})

\* an object with a null id and an empty method got an error response
C32_Witness ==
    /\ call.op = "handle_one"
    /\ NoUsableId(call.payload)
    /\ has_key(call.payload, "id")
    /\ ~Parses(call.payload)
    /\ call.resp.has
    /\ call.resp.v.error.code = "INVALID_PARAMS"

\* an object with no id and no method got an error response
C32_WitnessNoId ==
    /\ call.op = "handle_one"
    /\ NoUsableId(call.payload)
    /\ ~has_key(call.payload, "id")
    /\ ~Parses(call.payload)
    /\ call.resp.has

\* in a batch the object without an id added the one entry, next to a
\* notification that added none
C32_WitnessBatch ==
    /\ HandleCalled
    /\ call.payload = Arr(<<NotifEcho, NoIdNoMethod>>)
    /\ call.out.has
    /\ Len(call.out.v.el) = 1
    /\ Len(call.invoked) = 1

\* an object with the key id and exactly one of the keys result and error
IsResponseObject(e) ==
    /\ is_object(e)
    /\ keys(e) \in {{"id", "result"}, {"id", "error"}}

\* the item is an object with an id that is not null
CarriesId(item) ==
    is_object(item) /\ has_key(item, "id") /\ ~is_null(item.kv["id"])

\* C33: what Dispatcher::handle returns is nothing, one response object (id
\* and exactly one of result and error), or a non-empty array of response
\* objects, never an empty array; for a non-empty batch the number of
\* entries is the number of items that are not objects, fail the parse or
\* carry a non-null id, which is at most the length of the batch.
C33_HandleOutputShape ==
    HandleCalled =>
        /\ \/ ~call.out.has
           \/ IsResponseObject(call.out.v)
           \/ /\ is_array(call.out.v)
              /\ Len(call.out.v.el) > 0
              /\ \A j \in 1..Len(call.out.v.el) : IsResponseObject(call.out.v.el[j])
        /\ IsBatch =>
              LET n == Cardinality({k \in 1..Len(call.payload.el) :
                           \/ ~is_object(call.payload.el[k])
                           \/ ~Parses(call.payload.el[k])
                           \/ CarriesId(call.payload.el[k])})
              IN  /\ n <= Len(call.payload.el)
                  /\ n = 0 <=> ~call.out.has
                  /\ n > 0 => is_array(call.out.v) /\ Len(call.out.v.el) = n

\* a batch of three gave an array of two response objects, one with a
\* result and one with an error
C33_Witness ==
    /\ HandleCalled
    /\ is_array(call.payload)
    /\ Len(call.payload.el) = 3
    /\ call.out.has
    /\ is_array(call.out.v)
    /\ Len(call.out.v.el) = 2
    /\ keys(call.out.v.el[1]) = {"id", "result"}
    /\ keys(call.out.v.el[2]) = {"id", "error"}

\* a single request gave one response object
C33_WitnessObject ==
    /\ HandleCalled
    /\ is_object(call.payload)
    /\ call.out.has
    /\ keys(call.out.v) = {"id", "result"}

\* a batch of notifications gave nothing
C33_WitnessNothing ==
    /\ IsBatch
    /\ Len(call.payload.el) = 2
    /\ ~call.out.has
    /\ call.transport = "http"
    /\ Len(call.invoked) = 2

(***************************************************************************)
(* The responses of Dispatcher::handle read back by RpcResponse::parse     *)
(***************************************************************************)
\* the response objects in what handle returned
Emitted ==
    IF ~call.out.has
    THEN {}
    ELSE IF is_array(call.out.v)
    THEN {call.out.v.el[j] : j \in 1..Len(call.out.v.el)}
    ELSE {call.out.v}

\* every RpcError a handler returned in the call has a code
HandlerErrorsHaveCode ==
    \A j \in 1..Len(call.invoked) :
        invoke(call.invoked[j].h, call.invoked[j].ctx).is_err =>
            invoke(call.invoked[j].h, call.invoked[j].ctx).err.code # ""

\* C34: every response object Dispatcher::handle emits, alone or as an entry
\* of a batch, is accepted by RpcResponse::parse and reads back with the
\* same id and the same result or error, as long as the RpcErrors the
\* handlers returned have a non-empty code.
C34_EmittedResponsesParse ==
    /\ (HandleCalled /\ HandlerErrorsHaveCode) =>
        \A e \in Emitted :
            LET p == response_parse(e)
            IN  /\ ~p.is_err
                /\ p.resp.id = e.kv["id"]
                /\ p.resp.has_error <=> has_key(e, "error")
                /\ has_key(e, "result") => p.resp.result = e.kv["result"]
                /\ has_key(e, "error") => error_to_json(p.resp.error) = e.kv["error"]
                /\ response_to_json(p.resp) = e
    /\ (call.op = "handle_one" /\ call.resp.has /\ HandlerErrorsHaveCode) =>
            response_parse(response_to_json(call.resp.v)) = RespOk(call.resp.v)

\* a batch emitted a success and the error a handler returned, and both
\* read back
C34_Witness ==
    /\ HandleCalled
    /\ is_array(call.payload)
    /\ call.out.has
    /\ Len(call.out.v.el) = 2
    /\ has_key(call.out.v.el[1], "result")
    /\ has_key(call.out.v.el[2], "error")
    /\ Len(call.invoked) = 2
    /\ invoke(call.invoked[2].h, call.invoked[2].ctx).is_err
    /\ ~response_parse(call.out.v.el[2]).is_err

\* a single response with a null result read back
C34_WitnessNullResult ==
    /\ HandleCalled
    /\ is_object(call.payload)
    /\ call.out.has
    /\ has_key(call.out.v, "result")
    /\ is_null(call.out.v.kv["result"])
    /\ ~response_parse(call.out.v).is_err

(***************************************************************************)
(* The registry over the calls of add and remove                           *)
(***************************************************************************)
\* the names whose most recent add or remove was an add
RegisteredNames == {n \in Names : hist[n].last # "none"}

\* has and size against the history of add and remove
RegistryInv ==
    /\ \A n \in Names : router_has(handlers_, n) <=> n \in RegisteredNames
    /\ router_size(handlers_) = Cardinality(RegisteredNames)
    /\ call.op = "has" => (call.flag <=> call.name \in RegisteredNames)
    /\ call.op = "size" => call.count = Cardinality(RegisteredNames)

\* what add and remove do to size
RegistrySize ==
    /\ call'.op = "add" =>
          router_size(handlers_') =
              router_size(handlers_) + (IF router_has(handlers_, call'.name) THEN 0 ELSE 1)
    /\ call'.op = "remove" =>
          router_size(handlers_') =
              router_size(handlers_) - (IF router_has(handlers_, call'.name) THEN 1 ELSE 0)

\* C35: after any sequence of add and remove, has(n) is true exactly when
\* the most recent add or remove on n was an add, and size() is the number
\* of such names; an add of a registered name and a remove of an
\* unregistered name leave size() as it is.
C35_RegistryConsistent ==
    /\ []RegistryInv
    /\ [][RegistrySize]_vars

\* has of a name that was added, removed and is gone, with another name
\* still registered
C35_Witness ==
    /\ call.op = "has"
    /\ ~call.flag
    /\ hist[call.name].over # "none"
    /\ hist[call.name].last = "none"
    /\ RegisteredNames # {}

\* size after a name was added twice
C35_WitnessSize ==
    /\ call.op = "size"
    /\ call.count = 1
    /\ \E n \in Names : hist[n].last # "none" /\ hist[n].over # "none"

\* the remove of an unregistered name, with two names registered
C35_WitnessRemoveAbsent ==
    /\ call.op = "remove"
    /\ ~call.flag
    /\ router_size(handlers_) = 2

(***************************************************************************)
(* The Dispatcher and the registry of its Router                           *)
(***************************************************************************)
\* a request of a method the history follows was handled
LiveHandled ==
    /\ HandleCalled
    /\ Parses(call.payload)
    /\ request_parse(call.payload).req.method \in Names

\* C37: the Dispatcher reads the registry as it is at the call, not as it
\* was when the Dispatcher was built: handle invokes the handler of the most
\* recent add on the method, and after a remove it invokes nothing and
\* answers a request that has an id with METHOD_NOT_FOUND under that id.
C37_LiveRegistry ==
    LiveHandled =>
        LET req == request_parse(call.payload).req
            h   == hist[req.method].last
            ctx == Context(req.method, req.params, req.id, call.transport, call.meta)
        IN  /\ h # "none" =>
                /\ call.invoked = <<Invocation(h, ctx)>>
                /\ ~is_null(req.id) =>
                      /\ call.out.has
                      /\ call.out.v = response_to_json(
                             IF invoke(h, ctx).is_err
                             THEN response_fail(req.id, invoke(h, ctx).err)
                             ELSE response_ok(req.id, invoke(h, ctx).val))
            /\ h = "none" =>
                /\ call.invoked = <<>>
                /\ ~is_null(req.id) =>
                      /\ call.out.has
                      /\ call.out.v = response_to_json(
                             response_fail(req.id, method_not_found(req.method)))
            /\ is_null(req.id) => ~call.out.has

\* echo was added, and handle of a request for echo ran the handler
C37_Witness ==
    /\ LiveHandled
    /\ call.payload = ReqEcho1
    /\ hist["echo"].last = "h_echo"
    /\ hist["echo"].over = "none"
    /\ Len(call.invoked) = 1
    /\ call.out.v.kv["result"] = Obj("x" :> I64(10))

\* echo was added again with another handler, and handle ran the new one
C37_WitnessReplaced ==
    /\ LiveHandled
    /\ call.payload = ReqEcho1
    /\ hist["echo"].last = "h_add"
    /\ hist["echo"].over = "h_echo"
    /\ call.invoked[1].h = "h_add"

\* math.add was removed, and handle answered METHOD_NOT_FOUND under id 2
C37_WitnessRemoved ==
    /\ LiveHandled
    /\ call.payload = ReqAdd2
    /\ hist["math.add"].last = "none"
    /\ hist["math.add"].over = "h_add"
    /\ call.invoked = <<>>
    /\ call.out.v.kv["id"] = I64(2)
    /\ call.out.v.kv["error"].kv["code"] = Str("METHOD_NOT_FOUND")

\* the call that the step ends is one of dispatch, handle and handle_one
ReadOnlyCall(c) == c.op \in {"dispatch", "dispatch_raw", "handle", "handle_one"}

\* C36: Router::dispatch, Dispatcher::handle and Dispatcher::handle_one never
\* add, remove or replace an entry of the registry: whatever the payload and
\* the outcome, has(n) for every name, size() and the handlers registered
\* are after the call what they were before it.
C36_DispatchLeavesRegistry ==
    [][ReadOnlyCall(call') =>
          /\ \A n \in Names : router_has(handlers_', n) <=> router_has(handlers_, n)
          /\ router_size(handlers_') = router_size(handlers_)
          /\ handlers_' = handlers_]_vars

\* a batch ran three handlers on a registry of two names
C36_Witness ==
    /\ HandleCalled
    /\ is_array(call.payload)
    /\ Len(call.invoked) = 3
    /\ router_size(handlers_) = 2

\* a dispatch ended in METHOD_NOT_FOUND on a registry that is not empty
C36_WitnessNotFound ==
    /\ DispatchCalled
    /\ call.result.is_err
    /\ call.result.err.code = "METHOD_NOT_FOUND"
    /\ router_size(handlers_) = 3

\* a handler returned an RpcError to handle_one
C36_WitnessHandlerError ==
    /\ call.op = "handle_one"
    /\ Len(call.invoked) = 1
    /\ call.resp.has
    /\ call.resp.v.has_error
    /\ router_size(handlers_) = 1

\* a raw dispatch ended in a parse failure
C36_WitnessParseFailure ==
    /\ call.op = "dispatch_raw"
    /\ call.result.is_err
    /\ call.result.err.code = "PARSE_ERROR"
    /\ router_size(handlers_) = 2

(***************************************************************************)
(* An id written as null and an id left out                                *)
(***************************************************************************)
\* the object without the key
WithoutKey(v, k) == Obj([x \in DOMAIN v.kv \ {k} |-> v.kv[x]])

\* the same object with the id written as null where it was left out, and
\* with the id left out where it was written as null
NullIdTwin(p) ==
    IF has_key(p, "id") THEN WithoutKey(p, "id") ELSE Obj(("id" :> Null) @@ p.kv)

\* C38: a request object whose id is written as null is handled like the
\* same object without an id: both parse to the same request, with has_id()
\* false, both invoke the registered handler exactly once with a Context
\* whose has_id() is false, and both produce no response.
C38_NullIdIsAbsentId ==
    /\ (call.op = "request_parse" /\ NoUsableId(call.payload)) =>
          /\ request_parse(NullIdTwin(call.payload)).is_err = call.err.has
          /\ request_parse(NullIdTwin(call.payload)).req = call.req.v
          /\ request_parse(NullIdTwin(call.payload)).err = call.err.v
          /\ call.req.has => ~request_has_id(call.req.v)
    /\ (call.op = "handle_one" /\ NoUsableId(call.payload)) =>
          LET r2 == handle_one(handlers_, NullIdTwin(call.payload),
                               call.transport, call.meta)
          IN  /\ call.resp = [has |-> r2.has, v |-> r2.resp]
              /\ call.invoked = r2.inv
    /\ (HandleCalled /\ NoUsableId(call.payload)) =>
          LET r2 == handle(handlers_, NullIdTwin(call.payload),
                           call.transport, call.meta)
          IN  /\ call.out = [has |-> r2.has, v |-> r2.tok]
              /\ call.invoked = r2.inv
    /\ (Handled /\ NoUsableId(call.payload) /\ Parses(call.payload)) =>
          /\ ~call.out.has
          /\ ~call.resp.has
          /\ Parses(NullIdTwin(call.payload))
          /\ Registered(call.payload) =>
                /\ Len(call.invoked) = 1
                /\ ~context_has_id(call.invoked[1].ctx)
          /\ ~Registered(call.payload) => call.invoked = <<>>

\* a request with the id written as null ran its handler and got no response
C38_Witness ==
    /\ HandleCalled
    /\ is_object(call.payload)
    /\ has_key(call.payload, "id")
    /\ is_null(call.payload.kv["id"])
    /\ Len(call.invoked) = 1
    /\ ~context_has_id(call.invoked[1].ctx)
    /\ ~call.out.has

\* a request with no id ran its handler and got no response
C38_WitnessAbsent ==
    /\ call.op = "handle_one"
    /\ is_object(call.payload)
    /\ ~has_key(call.payload, "id")
    /\ Len(call.invoked) = 1
    /\ ~call.resp.has

\* a request with the id written as null parsed to a request without an id
C38_WitnessParsed ==
    /\ call.op = "request_parse"
    /\ has_key(call.payload, "id")
    /\ is_null(call.payload.kv["id"])
    /\ call.req.has
    /\ ~request_has_id(call.req.v)

====
